---- MODULE Spec2Model ----
(***************************************************************************)
(* Verification model of the JobHunter task-graph execution engine:       *)
(*   - the TaskGraph level computation (frontend TaskGraph component),    *)
(*   - the content script's step interpreter, retry loop and executeSteps,*)
(*   - the background service worker's persistent task monitor.           *)
(*   - the popup observing and resetting the persisted task state,       *)
(*   - in-tab tasks (startInTabTask, executeSteps, stepResult reports),   *)
(*   - the frontend's WebSocket clients.                                  *)
(* Each part has its own specification over its own variables; the        *)
(* variables of the other parts stay at their initial value.              *)
(***************************************************************************)
EXTENDS Integers, Sequences, FiniteSets, TLC

VARIABLES
  \* ---- TaskGraph.graphNodes (level computation) ----
  gSteps,      \* the `steps` prop: sequence of [id, deps]
  gNodes,      \* `nodes`: sequence of [idx, id, level] (idx = position in steps)
  gProcessed,  \* `processedIds`
  gLevel,      \* `currentLevel`
  gCur,        \* `currentLevelSteps`: sequence of positions in steps
  gPc,         \* "loop" while in the while-loop, "returned" after `return nodes`
  \* ---- content script: executeSteps / executeStep ----
  xSteps,      \* `steps` of the executeSteps message: sequence of [id, deps, retries]
  xIdx,        \* position of the for-of loop in steps
  xPc,         \* "for" | "attempt" | "backoff" | "pacing" | "done"
  xAttempt,    \* `attempt` of the running executeStep call
  xErrs,       \* error messages thrown by the attempts of the running call
  xReports,    \* stepResult messages sent by the running call
  xWaits,      \* backoff delays (ms) awaited by the running call
  xRet,        \* value returned by the last executeStep call (NoRet while running)
  xResult,     \* per step position: "none" | "running" | "success" | "failed"
  xStarted,    \* positions in the order executeStep was called on them
  xResponded,  \* sendResponse({success: true, message: 'Execution finished'}) was called
  \* ---- content script: attemptAction against the live page ----
  pHost,       \* window.location.hostname, as a sequence of labels
  pHasInput,   \* the document has a generic search input
  pItems,      \* number of elements matching the loop's items_selector
  pHref,       \* window.location.href, once the script assigned it
  pInputValue, \* value of the generic search input
  pLast,       \* the last attemptAction call: its action, inputs and outcome
  pCalls,      \* number of attemptAction calls made
  \* ---- background service worker: persistent task monitor ----
  mTasks,      \* the task ids the popup may hand to the monitor
  mStore,      \* chrome.storage.local 'activeTask' (NoTask when absent)
  mPolling,    \* activePolling: task id -> id of its interval timer (0: no entry)
  mTimers,     \* live setInterval timers: [id, task, init]
  mNextTimer,  \* id the next setInterval call returns
  mStarts,     \* startPollingTask calls awaiting their initial storage write (FIFO)
  mTicks,      \* poll ticks in flight: [id, timer, task, init, pc, data, cur]
  mNextTick,   \* id of the next tick
  mNotifs,     \* chrome.notifications.create calls: sequence of [task, timer, message]
  mBadge,      \* the action badge: [text, pct]
  mBackend,    \* the backend's status of each task
  mNow,        \* Date.now(), ms
  mBoot,       \* the worker's startup storage read: [pc, task]
  mBudget,     \* what the environment may still do: [events, ticks, flight]
  \* ---- popup: the observer of the persisted task state ----
  uOpen,       \* the popup is open
  uView,       \* taskState of the open popup (NoView until a task is restored)
  uPending,    \* getTaskState queries sent and not yet answered
  uQueries,    \* getTaskState queries sent so far
  uOutbox,     \* stopTaskPolling / clearTaskState messages of resetState not yet handled (FIFO)
  \* ---- stepResult messages from the content script to the service worker ----
  rContext,    \* the content script's extension context is valid
  rListening,  \* the service worker's onMessage listener receives the messages
  rChannel,    \* stepResult messages delivered and not yet handled (FIFO)
  rForwards,   \* reports being forwarded to the backend: [id, msg, pc, json, state]
  rLog,        \* console.error calls: [send, forward] failures logged
  \* ---- in-tab tasks: startInTabTask in the worker, executeSteps in the tab ----
  cClaims,     \* startInTabTask calls: sequence of [task, pc, answer]
  bInbox,      \* executeSteps messages sent to the tab and not yet received (FIFO)
  bBatches,    \* executeSteps handlers started in the content script: sequence of [task, idx, pc]
  \* ---- frontend: a WebSocket client (WebSocketService or TaskWebSocket) ----
  wKind,       \* which client class: "service" | "task"
  wMounted,    \* the owner still uses the client: disconnect() has not been called
  wSockets,    \* WebSocket objects whose handlers can still run: [id, state]
  wRef,        \* this.ws: id of a socket, 0 for null
  wAttempts,   \* this.reconnectAttempts
  wTimers,     \* pending reconnect setTimeout callbacks
  wNextSock    \* id of the next WebSocket created

graphVars == <<gSteps, gNodes, gProcessed, gLevel, gCur, gPc>>

execVars == <<xSteps, xIdx, xPc, xAttempt, xErrs, xReports, xWaits, xRet, xResult,
              xStarted, xResponded>>

pageVars == <<pHost, pHasInput, pItems, pHref, pInputValue, pLast, pCalls>>

monVars == <<mTasks, mStore, mPolling, mTimers, mNextTimer, mStarts, mTicks, mNextTick,
             mNotifs, mBadge, mBackend, mNow, mBoot, mBudget>>

popVars == <<uOpen, uView, uPending, uQueries, uOutbox>>

repVars == <<rContext, rListening, rChannel, rForwards, rLog>>

tabVars == <<cClaims, bInbox, bBatches>>

sockVars == <<wKind, wMounted, wSockets, wRef, wAttempts, wTimers, wNextSock>>

vars == <<graphVars, execVars, pageVars, monVars, popVars, repVars, tabVars, sockVars>>

(***************************************************************************)
(* Generic helpers                                                         *)
(***************************************************************************)
Range(s) == {s[i] : i \in 1..Len(s)}

\* all sequences over S of length <= n
SeqsUpTo(S, n) == UNION {[1..k -> S] : k \in 0..n}

(***************************************************************************)
(* TaskGraph.graphNodes                                                    *)
(***************************************************************************)
MaxSteps == 3

StepIds == {"A", "B", "C"}

\* a TaskStep, reduced to the fields graphNodes reads
GraphStep == [id : StepIds, deps : SUBSET StepIds]

StepLists == SeqsUpTo(GraphStep, MaxSteps)

\* steps.filter(s => s.dependencies.length === 0), as positions, in list order
RootSteps(steps) ==
  SelectSeq([i \in 1..Len(steps) |-> i], LAMBDA i : steps[i].deps = {})

\* steps.filter(s => !processedIds.has(s.id) && s.dependencies.every(dep => processedIds.has(dep)))
NextLevelSome(steps, processed) ==
  SelectSeq([i \in 1..Len(steps) |-> i],
            LAMBDA i : /\ steps[i].id \notin processed
                       /\ \E d \in steps[i].deps : d \in processed)

NextLevelSteps(steps, processed) ==
  SelectSeq([i \in 1..Len(steps) |-> i],
            LAMBDA i : /\ steps[i].id \notin processed
                       /\ \A d \in steps[i].deps : d \in processed)

RECURSIVE PushLevel(_, _, _, _, _)
\* currentLevelSteps.forEach(step => { if (!processedIds.has(step.id)) { nodes.push; processedIds.add } })
\* returns <<nodes, processedIds>>
PushLevel(steps, cur, nodes, processed, level) ==
  IF cur = <<>> THEN <<nodes, processed>>
  ELSE LET i == Head(cur)
       IN  IF steps[i].id \in processed
           THEN PushLevel(steps, Tail(cur), nodes, processed, level)
           ELSE PushLevel(steps, Tail(cur),
                          Append(nodes, [idx |-> i, id |-> steps[i].id, level |-> level]),
                          processed \cup {steps[i].id}, level)

(***************************************************************************)
(* Structure of a step list, used to state the claims about graphNodes     *)
(***************************************************************************)
IdsOf(steps) == {steps[i].id : i \in 1..Len(steps)}

DistinctIds(steps) ==
  \A i, j \in 1..Len(steps) : steps[i].id = steps[j].id => i = j

DepsResolve(steps) == \A i \in 1..Len(steps) : steps[i].deps \subseteq IdsOf(steps)

\* the ids that steps with an id in `ids` depend on directly
DepsOfIds(steps, ids) ==
  UNION {steps[i].deps : i \in {j \in 1..Len(steps) : steps[j].id \in ids}}

RECURSIVE ReachN(_, _, _)
\* ids reachable from `ids` along at most n further dependency edges (ids included)
ReachN(steps, ids, n) ==
  IF n = 0 THEN ids
  ELSE ReachN(steps, ids \cup DepsOfIds(steps, ids), n - 1)

\* some step depends, directly or transitively, on its own id
HasCycle(steps) ==
  \E i \in 1..Len(steps) :
    steps[i].id \in ReachN(steps, steps[i].deps, Cardinality(StepIds))

WellFormed(steps) == DistinctIds(steps) /\ DepsResolve(steps) /\ ~HasCycle(steps)

\* the levels graphNodes gave to the steps with id d
LevelsOfId(nodes, d) == {nodes[k].level : k \in {j \in 1..Len(nodes) : nodes[j].id = d}}

C3_CycleRejected ==
  HasCycle(gSteps) => (gNodes = <<>> /\ gPc # "returned")

GraphIdle ==
  /\ gSteps = <<>>
  /\ gNodes = <<>>
  /\ gProcessed = {}
  /\ gLevel = 0
  /\ gCur = <<>>
  /\ gPc = "returned"

ExecIdle ==
  /\ xSteps = <<>>
  /\ xIdx = 1
  /\ xPc = "done"
  /\ xAttempt = 0
  /\ xErrs = <<>>
  /\ xReports = <<>>
  /\ xWaits = <<>>
  /\ xRet = [kind |-> "none"]
  /\ xResult = <<>>
  /\ xStarted = <<>>
  /\ xResponded = FALSE

PageIdle ==
  /\ pHost = <<>>
  /\ pHasInput = FALSE
  /\ pItems = 0
  /\ pHref = [base |-> "initial", site |-> <<>>, arg |-> <<>>]
  /\ pInputValue = <<>>
  /\ pLast = [action |-> "none"]
  /\ pCalls = 0

MonIdle ==
  /\ mTasks = {}
  /\ mStore = [taskId |-> "none"]
  /\ mPolling = <<>>
  /\ mTimers = {}
  /\ mNextTimer = 1
  /\ mStarts = <<>>
  /\ mTicks = {}
  /\ mNextTick = 1
  /\ mNotifs = <<>>
  /\ mBadge = [text |-> "", pct |-> 0]
  /\ mBackend = <<>>
  /\ mNow = 0
  /\ mBoot = [pc |-> "done", task |-> [taskId |-> "none"]]
  /\ mBudget = [events |-> 0, ticks |-> 0, flight |-> 0]

\* useState<TaskState> initial value of the popup
IdleView ==
  [status |-> "idle", message |-> "Enter a command to get started", taskId |-> "null",
   progress |-> 0, currentStep |-> "", thoughtProcess |-> <<>>]

PopIdle ==
  /\ uOpen = FALSE
  /\ uView = IdleView
  /\ uPending = 0
  /\ uQueries = 0
  /\ uOutbox = <<>>

RepIdle ==
  /\ rContext = TRUE
  /\ rListening = FALSE
  /\ rChannel = <<>>
  /\ rForwards = {}
  /\ rLog = [send |-> 0, forward |-> 0]

TabIdle ==
  /\ cClaims = <<>>
  /\ bInbox = <<>>
  /\ bBatches = <<>>

SockIdle ==
  /\ wKind = "service"
  /\ wMounted = FALSE
  /\ wSockets = {}
  /\ wRef = 0
  /\ wAttempts = 0
  /\ wTimers = 0
  /\ wNextSock = 1

GraphInit ==
  /\ MonIdle
  /\ PopIdle
  /\ RepIdle
  /\ TabIdle
  /\ SockIdle
  /\ ExecIdle
  /\ PageIdle
  /\ gSteps \in StepLists
  /\ gNodes = <<>>
  /\ gProcessed = {}
  /\ gLevel = 0
  /\ gCur = RootSteps(gSteps)
  /\ gPc = "loop"

\* one iteration of `while (currentLevelSteps.length > 0)`
GraphRoundKeepsLevel ==
  /\ gPc = "loop"
  /\ Len(gCur) > 0
  /\ LET r == PushLevel(gSteps, gCur, gNodes, gProcessed, gLevel)
     IN  /\ gNodes' = r[1]
         /\ gProcessed' = r[2]
  /\ UNCHANGED <<gSteps, gPc, gCur, gLevel>>
  /\ UNCHANGED <<execVars, pageVars, monVars, popVars, repVars, tabVars, sockVars>>

GraphRound ==
  /\ gPc = "loop"
  /\ Len(gCur) > 0
  /\ LET r == PushLevel(gSteps, gCur, gNodes, gProcessed, gLevel)
     IN  /\ gNodes' = r[1]
         /\ gProcessed' = r[2]
         /\ gCur' = NextLevelSteps(gSteps, r[2])
  /\ gLevel' = gLevel + 1
  /\ UNCHANGED <<gSteps, gPc>>
  /\ UNCHANGED <<execVars, pageVars, monVars, popVars, repVars, tabVars, sockVars>>

\* the loop condition fails: `return nodes`
GraphReturn ==
  /\ gPc = "loop"
  /\ Len(gCur) = 0
  /\ gPc' = "returned"
  /\ UNCHANGED <<gSteps, gNodes, gProcessed, gLevel, gCur>>
  /\ UNCHANGED <<execVars, pageVars, monVars, popVars, repVars, tabVars, sockVars>>

GraphNext == GraphRound \/ GraphReturn

SpecGraph == GraphInit /\ [][GraphNext]_vars

\* useMemo runs the computation to its end: the loop is never abandoned
SpecGraphFair == SpecGraph /\ WF_vars(GraphNext)

\* C25: the level computation terminates for every finite step list, lists with
\* dependency cycles, self-dependencies, duplicate ids or unresolvable
\* dependency ids included: graphNodes eventually returns.
C25_LevelsTerminate == <>(gPc = "returned")

\* C25 witness: graphNodes has returned for a list that has a cycle, a duplicate
\* id and a dependency id that names no step
C25_Witness ==
  /\ gPc = "returned"
  /\ HasCycle(gSteps)
  /\ ~DistinctIds(gSteps)
  /\ ~DepsResolve(gSteps)
  /\ gNodes # <<>>

(***************************************************************************)
(* Content script: executeStep (retry loop) and the executeSteps handler   *)
(***************************************************************************)
MaxExecSteps == 2

MaxRetries == 4

BackoffBaseMs == 300

ExecIds == {"A", "B"}

\* payload.retries: {} when the field is missing, {n} when it is the number n
RetryValues == {{}} \cup {{n} : n \in -1..MaxRetries}

\* payload.retries of the steps of a multi-step plan: missing or 2
PlanRetryValues == {{}, {2}}

\* a plan node as the content script reads it; `fields` are the payload
\* fields that are present with a truthy value
ExecStep == [id : ExecIds, deps : SUBSET ExecIds, retries : PlanRetryValues,
             action : {"click"}, fields : {{"selector"}}]

\* the step lists an executeSteps message can carry (planNodes, in any order)
ExecLists == SeqsUpTo(ExecStep, MaxExecSteps)

\* what a failing / succeeding attemptAction can throw / return
Errors == {"e1", "e2"}

Data == {"d1", "d2"}

\* a single step with any payload.retries
SingleSteps ==
  {<<[id |-> "A", deps |-> {}, retries |-> r, action |-> "click", fields |-> {"selector"}]>> :
     r \in RetryValues}

\* step.action values: the twelve cases of the switch, one in another letter
\* case, one unknown kind and a missing action
ActionKinds ==
  {"navigate", "click", "type", "extract", "wait", "search", "scrape", "parse", "loop",
   "verify", "submit", "apply", "Click", "hover", ""}

\* the payload fields the switch tests for presence
PayloadFields == {"selector", "target", "url", "query", "text", "items_selector"}

\* (act || '').toLowerCase()
ToLowerCase(act) == IF act = "Click" THEN "click" ELSE act

\* the Error attemptAction throws before touching the page, "ok" when none
InvalidPayload(act, fields) ==
  LET a == ToLowerCase(act)
  IN  IF a = "navigate" THEN (IF "url" \in fields THEN "ok" ELSE "No URL provided")
      ELSE IF a = "click"
      THEN (IF "selector" \in fields \/ "target" \in fields THEN "ok"
            ELSE "No selector provided for click")
      ELSE IF a = "type"
      THEN (IF "selector" \in fields \/ "target" \in fields THEN "ok"
            ELSE "No selector for type")
      ELSE IF a = "extract"
      THEN (IF "selector" \in fields THEN "ok" ELSE "No selector for extract")
      ELSE IF a = "search"
      THEN (IF "query" \in fields \/ "text" \in fields THEN "ok"
            ELSE "No query provided for search")
      ELSE IF a = "scrape"
      THEN (IF "selector" \in fields THEN "ok" ELSE "No selector for scrape")
      ELSE IF a = "loop"
      THEN (IF "items_selector" \in fields THEN "ok" ELSE "No items_selector for loop")
      ELSE IF a = "verify"
      THEN (IF "selector" \in fields THEN "ok" ELSE "No selector for verify")
      ELSE IF a \in {"wait", "parse", "submit", "apply"} THEN "ok"
      ELSE "Unsupported action in content script"

\* the cases that can still throw once the payload is accepted (element not
\* found, malformed selector, no submit target, apply not implemented)
PageCanFail(act) ==
  ToLowerCase(act) \in {"click", "type", "extract", "scrape", "loop", "verify", "submit", "apply"}

\* what attemptAction(step.action, step.payload) can return
AttemptReturnsUnvalidated(step) == Data

AttemptReturns(step) ==
  IF InvalidPayload(step.action, step.fields) = "ok" THEN Data ELSE {}

\* what attemptAction(step.action, step.payload) can throw
AttemptThrows(step) ==
  IF InvalidPayload(step.action, step.fields) # "ok"
  THEN {InvalidPayload(step.action, step.fields)}
  ELSE IF PageCanFail(step.action) THEN Errors ELSE {}

NoRet == [kind |-> "none"]

\* const retries = step.payload?.retries || 1
Retries(step) ==
  IF step.retries = {} \/ step.retries = {0} THEN 1
  ELSE CHOOSE n \in step.retries : TRUE

\* setTimeout(r, 300 * attempt)
BackoffExponential(attempt) == BackoffBaseMs * (2 ^ (attempt - 1))

BackoffDelay(attempt) == BackoffBaseMs * attempt

\* sendStepResult(taskId, stepId, stepName, success, payload, {attempt[, error]})
StepResultMsgZeroBased(attempt, success, payload) ==
  [attempt |-> attempt - 1, success |-> success, payload |-> payload]

StepResultMsg(attempt, success, payload) ==
  [attempt |-> attempt, success |-> success, payload |-> payload]

\* const stepName = step.name || step.action (the plan nodes carry no name)
StepName(step) == step.action

\* chrome.runtime.sendMessage(msg) inside sendStepResult's try/catch: it throws
\* when the extension context is gone (caught and logged), and the message is
\* lost when no listener receives it
SendMessage(stepName, msg) ==
  /\ rChannel' = IF rContext /\ rListening
                 THEN Append(rChannel, [stepName |-> stepName, result |-> msg])
                 ELSE rChannel
  /\ rLog' = IF rContext THEN rLog ELSE [rLog EXCEPT !.send = @ + 1]
  /\ UNCHANGED <<rContext, rListening, rForwards>>

\* executeSteps: the for-of loop is exhausted, sendResponse
ForEnd ==
  /\ xPc = "for"
  /\ xIdx > Len(xSteps)
  /\ xPc' = "done"
  /\ xResponded' = TRUE
  /\ UNCHANGED <<xSteps, xIdx, xAttempt, xErrs, xReports, xWaits, xRet, xResult, xStarted>>
  /\ UNCHANGED <<graphVars, pageVars, monVars, popVars, repVars, tabVars, sockVars>>

\* executeSteps: `await executeStep(taskId, step)` is called on the next step
\* of the list; the retry loop is entered when 1 <= retries
CallStep ==
  /\ xPc = "for"
  /\ xIdx <= Len(xSteps)
  /\ xStarted' = Append(xStarted, xIdx)
  /\ xAttempt' = 1
  /\ xErrs' = <<>>
  /\ xReports' = <<>>
  /\ xWaits' = <<>>
  /\ IF 1 <= Retries(xSteps[xIdx])
     THEN /\ xPc' = "attempt"
          /\ xRet' = NoRet
          /\ xResult' = [xResult EXCEPT ![xIdx] = "running"]
          /\ xResponded' = xResponded
     ELSE \* the loop body never runs: return {success: false, error: 'Unknown failure'}
          \* and executeSteps breaks
          /\ xPc' = "done"
          /\ xRet' = [kind |-> "failure", error |-> "Unknown failure"]
          /\ xResult' = [xResult EXCEPT ![xIdx] = "failed"]
          /\ xResponded' = TRUE
  /\ UNCHANGED <<xSteps, xIdx>>
  /\ UNCHANGED <<graphVars, pageVars, monVars, popVars, repVars, tabVars, sockVars>>

\* attemptAction resolved with `res`: report it and return at once
OnAttemptSuccessThenBackoff(res) ==
  /\ xReports' = Append(xReports, StepResultMsg(xAttempt, TRUE, res))
  /\ xRet' = [kind |-> "success", data |-> res]
  /\ xResult' = [xResult EXCEPT ![xIdx] = "success"]
  /\ xPc' = "pacing"
  /\ xWaits' = Append(xWaits, BackoffDelay(xAttempt))
  /\ UNCHANGED <<xSteps, xIdx, xAttempt, xErrs, xStarted, xResponded>>

OnAttemptSuccess(res) ==
  /\ xReports' = Append(xReports, StepResultMsg(xAttempt, TRUE, res))
  /\ xRet' = [kind |-> "success", data |-> res]
  /\ xResult' = [xResult EXCEPT ![xIdx] = "success"]
  /\ xPc' = "pacing"
  /\ UNCHANGED <<xSteps, xIdx, xAttempt, xErrs, xWaits, xStarted, xResponded>>

\* attemptAction threw `err`: report it; return the failure when this was the
\* last attempt (executeSteps then breaks), else back off
OnAttemptFailureContinue(err) ==
  /\ xErrs' = Append(xErrs, err)
  /\ xReports' = Append(xReports, StepResultMsg(xAttempt, FALSE, err))
  /\ IF xAttempt = Retries(xSteps[xIdx])
     THEN /\ xRet' = [kind |-> "failure", error |-> err]
          /\ xResult' = [xResult EXCEPT ![xIdx] = "failed"]
          /\ xPc' = "pacing"
          /\ xWaits' = xWaits
          /\ UNCHANGED xResponded
     ELSE /\ xWaits' = Append(xWaits, BackoffDelay(xAttempt))
          /\ xPc' = "backoff"
          /\ UNCHANGED <<xRet, xResult, xResponded>>
  /\ UNCHANGED <<xSteps, xIdx, xAttempt, xStarted>>

OnAttemptFailure(err) ==
  /\ xErrs' = Append(xErrs, err)
  /\ xReports' = Append(xReports, StepResultMsg(xAttempt, FALSE, err))
  /\ IF xAttempt = Retries(xSteps[xIdx])
     THEN /\ xRet' = [kind |-> "failure", error |-> err]
          /\ xResult' = [xResult EXCEPT ![xIdx] = "failed"]
          /\ xPc' = "done"
          /\ xResponded' = TRUE
          /\ xWaits' = xWaits
     ELSE /\ xWaits' = Append(xWaits, BackoffDelay(xAttempt))
          /\ xPc' = "backoff"
          /\ UNCHANGED <<xRet, xResult, xResponded>>
  /\ UNCHANGED <<xSteps, xIdx, xAttempt, xStarted>>

\* one pass of the try block: the page decides whether the action succeeds
Attempt ==
  /\ xPc = "attempt"
  /\ \/ \E res \in AttemptReturns(xSteps[xIdx]) : OnAttemptSuccess(res)
     \/ \E err \in AttemptThrows(xSteps[xIdx]) : OnAttemptFailure(err)
  /\ SendMessage(StepName(xSteps[xIdx]), xReports'[Len(xReports')])
  /\ UNCHANGED <<graphVars, pageVars, monVars, popVars, tabVars, sockVars>>

\* the backoff timer fired: attempt++ and the loop condition is tested again
Backoff ==
  /\ xPc = "backoff"
  /\ xAttempt' = xAttempt + 1
  /\ IF xAttempt + 1 <= Retries(xSteps[xIdx])
     THEN /\ xPc' = "attempt"
          /\ UNCHANGED <<xRet, xResult, xResponded>>
     ELSE /\ xPc' = "done"
          /\ xRet' = [kind |-> "failure", error |-> "Unknown failure"]
          /\ xResult' = [xResult EXCEPT ![xIdx] = "failed"]
          /\ xResponded' = TRUE
  /\ UNCHANGED <<xSteps, xIdx, xErrs, xReports, xWaits, xStarted>>
  /\ UNCHANGED <<graphVars, pageVars, monVars, popVars, repVars, tabVars, sockVars>>

\* executeSteps: the 300 ms pacing delay after a successful step elapsed
Pacing ==
  /\ xPc = "pacing"
  /\ xIdx' = xIdx + 1
  /\ xPc' = "for"
  /\ UNCHANGED <<xSteps, xAttempt, xErrs, xReports, xWaits, xRet, xResult, xStarted,
                 xResponded>>
  /\ UNCHANGED <<graphVars, pageVars, monVars, popVars, repVars, tabVars, sockVars>>

\* the executeSteps message has just been received with some step list
ExecInit ==
  /\ GraphIdle
  /\ PageIdle
  /\ MonIdle
  /\ PopIdle
  /\ RepIdle
  /\ TabIdle
  /\ SockIdle
  /\ xSteps \in ExecLists
  /\ xIdx = 1
  /\ xPc = "for"
  /\ xAttempt = 0
  /\ xErrs = <<>>
  /\ xReports = <<>>
  /\ xWaits = <<>>
  /\ xRet = NoRet
  /\ xResult = [i \in 1..Len(xSteps) |-> "none"]
  /\ xStarted = <<>>
  /\ xResponded = FALSE

ExecNext == ForEnd \/ CallStep \/ Attempt \/ Backoff \/ Pacing

SpecExec == ExecInit /\ [][ExecNext]_vars

\* an executeSteps message carrying one step
StepInit ==
  /\ GraphIdle
  /\ PageIdle
  /\ MonIdle
  /\ PopIdle
  /\ RepIdle
  /\ TabIdle
  /\ SockIdle
  /\ xSteps \in SingleSteps
  /\ xIdx = 1
  /\ xPc = "for"
  /\ xAttempt = 0
  /\ xErrs = <<>>
  /\ xReports = <<>>
  /\ xWaits = <<>>
  /\ xRet = NoRet
  /\ xResult = [i \in 1..Len(xSteps) |-> "none"]
  /\ xStarted = <<>>
  /\ xResponded = FALSE

SpecStep == StepInit /\ [][ExecNext]_vars

\* C2: in-tab execution never starts a step before every step named in its
\* dependencies has finished, and never runs a step whose dependency failed:
\* whenever executeStep has been called on a step, each of its dependencies
\* has already returned success.
C2_DependenciesFirst ==
  WellFormed(xSteps) =>
    \A i \in Range(xStarted) : \A j \in 1..Len(xSteps) :
      xSteps[j].id \in xSteps[i].deps => xResult[j] = "success"

\* C27: for every step payload, retries missing, 0 or negative included,
\* executeStep has run the action at least once and sent at least one
\* stepResult when it returns.
C27_AttemptedBeforeReturn ==
  xRet # NoRet => Len(xReports) >= 1

\* C4: with payload.retries = n >= 1 and every attempt failing, executeStep
\* returns the failure carrying the last attempt's error after exactly n
\* attempts, each reported once with its attempt number, and the wait after
\* failed attempt k < n is 300 ms * k (linear).
C4_RetryExhaustion ==
  LET n == Retries(xSteps[1])
  IN  (xRet.kind = "failure" /\ n >= 1) =>
        /\ xAttempt = n
        /\ Len(xErrs) = n
        /\ Len(xReports) = n
        /\ \A k \in 1..n : xReports[k] = [attempt |-> k, success |-> FALSE, payload |-> xErrs[k]]
        /\ xRet.error = xErrs[n]
        /\ Len(xWaits) = n - 1
        /\ \A k \in 1..(n - 1) : xWaits[k] = 300 * k

\* four attempts failed with differing first and last errors
C4_Witness ==
  /\ xRet.kind = "failure"
  /\ Retries(xSteps[1]) = 4
  /\ Len(xErrs) = 4
  /\ xErrs[1] # xErrs[4]

\* C5: when attempt k is the first to succeed, executeStep returns success
\* with that attempt's data at once: k attempts were run and reported (k - 1
\* failures, then the success), the only waits are the k - 1 backoffs before
\* attempt k, and no attempt or backoff is pending after the return.
C5_SuccessShortCircuits ==
  xRet.kind = "success" =>
    LET k == Len(xReports)
    IN  /\ xAttempt = k
        /\ k >= 1 /\ k <= Retries(xSteps[1])
        /\ Len(xErrs) = k - 1
        /\ \A j \in 1..(k - 1) :
             xReports[j] = [attempt |-> j, success |-> FALSE, payload |-> xErrs[j]]
        /\ xReports[k] = [attempt |-> k, success |-> TRUE, payload |-> xRet.data]
        /\ Len(xWaits) = k - 1
        /\ \A j \in 1..(k - 1) : xWaits[j] = 300 * j
        /\ xPc \in {"pacing", "for", "done"}

\* the second of four allowed attempts succeeded
C5_Witness ==
  /\ xRet.kind = "success"
  /\ Retries(xSteps[1]) = 4
  /\ Len(xReports) = 2
  /\ xPc = "done"

\* payload.retries of the steps whose action and payload vary
KindRetryValues == {{}, {-1}, {0}, {1}, {3}}

\* a single step of any action kind with any payload fields present
KindSteps ==
  {<<[id |-> "A", deps |-> {}, retries |-> r, action |-> a, fields |-> f]>> :
     r \in KindRetryValues, a \in ActionKinds, f \in SUBSET PayloadFields}

\* an executeSteps message carrying one step of any kind
KindInit ==
  /\ GraphIdle
  /\ PageIdle
  /\ MonIdle
  /\ PopIdle
  /\ RepIdle
  /\ TabIdle
  /\ SockIdle
  /\ xSteps \in KindSteps
  /\ xIdx = 1
  /\ xPc = "for"
  /\ xAttempt = 0
  /\ xErrs = <<>>
  /\ xReports = <<>>
  /\ xWaits = <<>>
  /\ xRet = NoRet
  /\ xResult = [i \in 1..Len(xSteps) |-> "none"]
  /\ xStarted = <<>>
  /\ xResponded = FALSE

SpecKinds == KindInit /\ [][ExecNext]_vars

\* the action kinds the claim takes as recognized
KnownKinds ==
  {"navigate", "click", "type", "extract", "wait", "search", "scrape", "parse", "loop",
   "verify", "submit", "apply"}

\* the step's kind is unrecognized or its payload lacks the field the claim
\* names for it
LacksNamedField(step) ==
  LET a == ToLowerCase(step.action)
  IN  \/ a \notin KnownKinds
      \/ a \in {"click", "type", "extract", "scrape", "verify"} /\ "selector" \notin step.fields
      \/ a = "navigate" /\ "url" \notin step.fields
      \/ a = "search" /\ "query" \notin step.fields
      \/ a = "loop" /\ "items_selector" \notin step.fields

\* the same, with target accepted for selector by click and type, and text
\* accepted for query by search
LacksRequiredField(step) ==
  LET a == ToLowerCase(step.action)
  IN  \/ a \notin KnownKinds
      \/ a \in {"click", "type"} /\ "selector" \notin step.fields /\ "target" \notin step.fields
      \/ a \in {"extract", "scrape", "verify"} /\ "selector" \notin step.fields
      \/ a = "navigate" /\ "url" \notin step.fields
      \/ a = "search" /\ "query" \notin step.fields /\ "text" \notin step.fields
      \/ a = "loop" /\ "items_selector" \notin step.fields

\* attempts the retry loop makes for a payload.retries value: the number when
\* positive, one when missing or 0, none when negative
ExpectedAttempts(r) ==
  IF r = {} \/ r = {0} THEN 1
  ELSE LET n == CHOOSE m \in r : TRUE IN IF n < 0 THEN 0 ELSE n

\* C15 (as stated): a step of unrecognized kind, or lacking selector
\* (click/type/extract/scrape/verify), url (navigate), query (search) or
\* items_selector (loop), returns success: false after exactly payload.retries
\* reported attempts.
C15_InvalidStepFails ==
  LET step == xSteps[1]
  IN  (xRet # NoRet /\ LacksNamedField(step) /\ step.retries # {} /\ Retries(step) >= 1) =>
        /\ xRet.kind = "failure"
        /\ Len(xReports) = Retries(step)

\* C15 (amended): with target accepted for selector and text for query, such a
\* step returns success: false with an error, every attempt having failed and
\* been reported, after payload.retries attempts (one when retries is missing
\* or 0, none when it is negative).
C15_InvalidStepFailsAmended ==
  LET step == xSteps[1]
  IN  LacksRequiredField(step) =>
        /\ \A k \in 1..Len(xReports) : xReports[k].success = FALSE
        /\ xRet # NoRet =>
             /\ xRet.kind = "failure"
             /\ Len(xReports) = ExpectedAttempts(step.retries)
             /\ xResponded

\* an unknown action kind with retries 3 was attempted and reported three times
C15_Witness ==
  /\ xSteps[1].action = "hover"
  /\ xSteps[1].retries = {3}
  /\ xRet # NoRet
  /\ xRet.kind = "failure"
  /\ xRet.error = "Unsupported action in content script"
  /\ Len(xReports) = 3

\* C13: executeSteps runs the steps one at a time in list order, each step
\* starting only after the previous executeStep call returned success, and no
\* step after the first one that returned success: false is ever executed.
C13_SequentialStopOnFailure ==
  /\ xStarted = [i \in 1..Len(xStarted) |-> i]
  /\ \A i \in 1..Len(xSteps) :
       /\ xResult[i] # "none" <=> i \in Range(xStarted)
       /\ xResult[i] # "none" => \A j \in 1..(i - 1) : xResult[j] = "success"
       /\ xResult[i] = "failed" => \A j \in (i + 1)..Len(xSteps) : xResult[j] = "none"
       /\ xResult[i] = "running" => i = xIdx /\ xPc \in {"attempt", "backoff"}
  /\ xResponded =>
       \/ \A i \in 1..Len(xSteps) : xResult[i] = "success"
       \/ \E i \in 1..Len(xSteps) : xResult[i] = "failed"

\* the first of two steps failed and the handler answered without touching the second
C13_Witness ==
  /\ Len(xSteps) = 2
  /\ xResult[1] = "failed"
  /\ xResult[2] = "none"
  /\ Len(xReports) = 2
  /\ xResponded

\* C16: within one executeStep call the attempts are strictly sequential: one
\* stepResult is sent per attempt, numbered 1, 2, ... in order, and attempt
\* n + 1 starts only after the stepResult of attempt n has been sent.
C16_AttemptsSequential ==
  /\ \A k \in 1..Len(xReports) : xReports[k].attempt = k
  /\ xPc = "attempt" => Len(xReports) = xAttempt - 1
  /\ xPc = "backoff" => Len(xReports) = xAttempt
  /\ xRet # NoRet => Len(xReports) \in {xAttempt, xAttempt - 1}
  /\ xRet # NoRet /\ Len(xReports) = xAttempt - 1 => xRet.error = "Unknown failure"

\* the third attempt is about to start, two results have been sent
C16_Witness ==
  /\ xPc = "attempt"
  /\ xAttempt = 3
  /\ Len(xReports) = 2
  /\ xReports[2].attempt = 2

(***************************************************************************)
(* Content script: attemptAction, cases 'search' and 'loop'                *)
(***************************************************************************)
MaxItems == 3

MaxCalls == 2

\* hostnames, label by label
Hosts == { <<"www", "linkedin", "com">>, <<"www", "indeed", "com">>,
           <<"in", "indeed", "com">>, <<"www", "example", "com">>,
           <<"www", "google", "com">> }

\* host.includes(pattern), on labels
Includes(host, pat) ==
  \E i \in 1..(Len(host) - Len(pat) + 1) : SubSeq(host, i, i + Len(pat) - 1) = pat

\* query strings, token by token
QueryStrings == { <<>>, <<"python">>, <<"python", " ", "dev">>, <<"c", "&", "go">> }

\* payload of a search step: each field is {} when missing, {s} when set
SearchPayloads == [query : {{}} \cup {{q} : q \in QueryStrings},
                   text  : {{}, {<<"rust">>}}]

\* value of an optional string field under `||`: missing and '' are falsy
Truthy(field) == field # {} /\ field # {<<>>}

ValueOf(field) == CHOOSE v \in field : TRUE

\* const q = payload?.query || payload?.text || ''
QueryOf(payload) ==
  IF Truthy(payload.query) THEN ValueOf(payload.query)
  ELSE IF Truthy(payload.text) THEN ValueOf(payload.text)
  ELSE <<>>

\* encodeURIComponent, token by token
EncodeToken(t) ==
  CASE t = " " -> "%20"
    [] t = "&" -> "%26"
    [] OTHER   -> t

EncodeURIComponent(q) == [i \in 1..Len(q) |-> EncodeToken(q[i])]

LinkedInUrl(q) ==
  [base |-> "https://www.linkedin.com/jobs/search?keywords=", site |-> <<>>,
   arg |-> EncodeURIComponent(q)]

IndeedUrl(q) ==
  [base |-> "https://www.indeed.com/jobs?q=", site |-> <<>>,
   arg |-> EncodeURIComponent(q)]

GoogleUrl(host, q) ==
  [base |-> "https://www.google.com/search?q=site:", site |-> host,
   arg |-> EncodeURIComponent(q)]

\* hostname of the page a constructed URL leads to
UrlHost(url) ==
  CASE url.base = "https://www.linkedin.com/jobs/search?keywords=" -> <<"www", "linkedin", "com">>
    [] url.base = "https://www.indeed.com/jobs?q="                 -> <<"www", "indeed", "com">>
    [] OTHER                                                       -> <<"www", "google", "com">>

\* which branch of case 'search' handles the request
SearchBranchInputFirst(host, hasInput) ==
  IF hasInput THEN "input"
  ELSE IF Includes(host, <<"linkedin", "com">>) THEN "linkedin"
  ELSE IF Includes(host, <<"indeed", "com">>) THEN "indeed"
  ELSE "google"

SearchBranch(host, hasInput) ==
  IF Includes(host, <<"linkedin", "com">>) THEN "linkedin"
  ELSE IF Includes(host, <<"indeed", "com">>) THEN "indeed"
  ELSE IF hasInput THEN "input"
  ELSE "google"

\* window.location.href = url; the script waits and returns {navigated: url}
Navigate(url) ==
  /\ pHref' = url
  /\ pHost' = UrlHost(url)
  /\ pHasInput' \in BOOLEAN
  /\ pItems' \in 0..MaxItems
  /\ pInputValue' = <<>>

\* attemptAction('search', payload)
SearchAttempt ==
  /\ pCalls < MaxCalls
  /\ pCalls' = pCalls + 1
  /\ \E payload \in SearchPayloads :
       LET q    == QueryOf(payload)
           call == [action |-> "search", host |-> pHost, hasInput |-> pHasInput, q |-> q]
       IN  IF q = <<>>
           THEN /\ pLast' = call @@
                            [out |-> [kind |-> "threw", error |-> "No query provided for search"]]
                /\ UNCHANGED <<pHost, pHasInput, pItems, pHref, pInputValue>>
           ELSE CASE SearchBranch(pHost, pHasInput) = "linkedin" ->
                       /\ Navigate(LinkedInUrl(q))
                       /\ pLast' = call @@ [out |-> [kind |-> "returned", navigated |-> LinkedInUrl(q)]]
                  [] SearchBranch(pHost, pHasInput) = "indeed" ->
                       /\ Navigate(IndeedUrl(q))
                       /\ pLast' = call @@ [out |-> [kind |-> "returned", navigated |-> IndeedUrl(q)]]
                  [] SearchBranch(pHost, pHasInput) = "input" ->
                       /\ pInputValue' = q
                       /\ pLast' = call @@ [out |-> [kind |-> "returned", typed |-> q]]
                       /\ UNCHANGED <<pHost, pHasInput, pItems, pHref>>
                  [] OTHER ->
                       /\ Navigate(GoogleUrl(pHost, q))
                       /\ pLast' = call @@ [out |-> [kind |-> "returned", navigated |-> GoogleUrl(pHost, q)]]
  /\ UNCHANGED <<graphVars, execVars, monVars, popVars, repVars, tabVars, sockVars>>

\* what processing one container element can end in: every substep ran, or
\* scrollIntoView, the click or a substep threw e
ItemOutcomes == {[ok |-> TRUE, error |-> "none"]} \cup {[ok |-> FALSE, error |-> e] : e \in Errors}

RECURSIVE LoopFromAbort(_, _, _, _)
LoopFromAbort(i, n, f, results) ==
  IF i > n THEN results
  ELSE IF f[i].ok
       THEN LoopFromAbort(i + 1, n, f, Append(results, [index |-> i - 1, success |-> TRUE, error |-> "none"]))
       ELSE Append(results, [index |-> i - 1, success |-> FALSE, error |-> f[i].error])

RECURSIVE LoopFrom(_, _, _, _)
\* for (let i = ...; i < nodes.length; i++) { try {...; results.push({index: i, success: true})}
\*                                            catch (e) { results.push({index: i, success: false, error}) } }
\* (i is 1-based here, the pushed index is i - 1; error "none" stands for no error field)
LoopFrom(i, n, f, results) ==
  IF i > n THEN results
  ELSE LoopFrom(i + 1, n, f,
                Append(results,
                       IF f[i].ok
                       THEN [index |-> i - 1, success |-> TRUE, error |-> "none"]
                       ELSE [index |-> i - 1, success |-> FALSE, error |-> f[i].error]))

\* attemptAction('loop', payload)
LoopAttempt ==
  /\ pCalls < MaxCalls
  /\ pCalls' = pCalls + 1
  /\ \E hasSelector \in BOOLEAN :
       IF ~hasSelector
       THEN pLast' = [action |-> "loop", hasSelector |-> FALSE, n |-> 0, outcomes |-> <<>>,
                      out |-> [kind |-> "threw", error |-> "No items_selector for loop"]]
       ELSE \E f \in [1..pItems -> ItemOutcomes] :
              pLast' = [action |-> "loop", hasSelector |-> TRUE, n |-> pItems, outcomes |-> f,
                        out |-> [kind |-> "returned", results |-> LoopFrom(1, pItems, f, <<>>)]]
  /\ UNCHANGED <<pHost, pHasInput, pItems, pHref, pInputValue>>
  /\ UNCHANGED <<graphVars, execVars, monVars, popVars, repVars, tabVars, sockVars>>

\* a page the content script is injected into
PageInit ==
  /\ GraphIdle
  /\ ExecIdle
  /\ MonIdle
  /\ PopIdle
  /\ RepIdle
  /\ TabIdle
  /\ SockIdle
  /\ pHost \in Hosts
  /\ pHasInput \in BOOLEAN
  /\ pItems \in 0..MaxItems
  /\ pHref = [base |-> "initial", site |-> <<>>, arg |-> <<>>]
  /\ pInputValue = <<>>
  /\ pLast = [action |-> "none"]
  /\ pCalls = 0

PageNext == SearchAttempt \/ LoopAttempt

SpecAction == PageInit /\ [][PageNext]_vars

\* C6: a loop over N matched elements returns N results in order, results[i]
\* carrying index i; a failed item is recorded as {index, success: false,
\* error} and later items are still processed; the loop action itself
\* returns (the step is reported successful) whatever the items did.
C6_LoopPartialFailure ==
  (pLast.action = "loop" /\ pLast.hasSelector) =>
    /\ pLast.out.kind = "returned"
    /\ Len(pLast.out.results) = pLast.n
    /\ \A i \in 1..pLast.n :
         LET r == pLast.out.results[i]
             o == pLast.outcomes[i]
         IN  /\ r.index = i - 1
             /\ r.success = o.ok
             /\ r.error = o.error

\* three items, the second failed, the other two succeeded
C6_Witness ==
  /\ pLast.action = "loop"
  /\ pLast.hasSelector
  /\ pLast.n = 3
  /\ pLast.out.kind = "returned"
  /\ Len(pLast.out.results) = 3
  /\ pLast.out.results[1].success
  /\ ~pLast.out.results[2].success
  /\ pLast.out.results[3].success

\* C7: a search with a non-empty query degrades specific -> generic ->
\* fallback: on a LinkedIn or Indeed host it navigates to that site's search
\* URL; elsewhere it types into the generic search input when there is one;
\* else it navigates to the site-scoped web search URL; it never throws.
C7_SearchDegradation ==
  (pLast.action = "search" /\ pLast.q # <<>>) =>
    LET onLinkedIn == Includes(pLast.host, <<"linkedin", "com">>)
        onIndeed   == Includes(pLast.host, <<"indeed", "com">>)
        out        == pLast.out
    IN  /\ out.kind = "returned"
        /\ onLinkedIn =>
             /\ out = [kind |-> "returned", navigated |-> LinkedInUrl(pLast.q)]
             /\ pHref = LinkedInUrl(pLast.q)
        /\ (onIndeed /\ ~onLinkedIn) =>
             /\ out = [kind |-> "returned", navigated |-> IndeedUrl(pLast.q)]
             /\ pHref = IndeedUrl(pLast.q)
        /\ (~onLinkedIn /\ ~onIndeed /\ pLast.hasInput) =>
             /\ out = [kind |-> "returned", typed |-> pLast.q]
             /\ pInputValue = pLast.q
        /\ (~onLinkedIn /\ ~onIndeed /\ ~pLast.hasInput) =>
             /\ out = [kind |-> "returned", navigated |-> GoogleUrl(pLast.host, pLast.q)]
             /\ pHref = GoogleUrl(pLast.host, pLast.q)

\* an unrecognized host without a search input ended at the fallback URL
C7_Witness ==
  /\ pLast.action = "search"
  /\ pLast.host = <<"www", "example", "com">>
  /\ ~pLast.hasInput
  /\ pLast.q = <<"python", " ", "dev">>
  /\ pLast.out.kind = "returned"
  /\ pHref.base = "https://www.google.com/search?q=site:"
  /\ pHref.arg = <<"python", "%20", "dev">>

(***************************************************************************)
(* Background service worker: persistent task monitor                      *)
(***************************************************************************)
MaxEvents == 4

MaxTicks == 2

ThoughtKeep == 5

\* 60 * 60 * 1000
StaleMs == 60 * 60 * 1000

\* the clock moves by one or two hours
ClockSteps == {60 * 60 * 1000, 2 * 60 * 60 * 1000}

NoTask == [taskId |-> "none"]

NoData == [status |-> "pending"]

Undefined == "undefined"

\* statuses the backend reports for a task; the last four are final
BackendStatuses == {"running", "waiting_intervention", "completed", "success", "failed", "error"}

BackendFinal == {"completed", "success", "failed", "error"}

\* JSON bodies of GET /tasks/{id}: every field present, only the status, or none
ResponseShapes == {"full", "status-only", "empty"}

Response(status, shape) ==
  [status           |-> IF shape = "empty" THEN Undefined ELSE status,
   progress_percent |-> IF shape = "full" THEN 50 ELSE 0,
   current_step     |-> IF shape = "full" THEN "s1" ELSE Undefined,
   message          |-> IF shape = "full" THEN "m1" ELSE Undefined,
   error_message    |-> IF shape = "full" /\ status \in {"failed", "error"} THEN "boom" ELSE Undefined]

\* a || b on strings (a missing field is falsy) and on numbers (0 is falsy)
OrStr(a, b) == IF a # Undefined THEN a ELSE b

OrNum(a, b) == IF a # 0 THEN a ELSE b

\* arr.slice(-n)
LastN(seq, n) == IF Len(seq) <= n THEN seq ELSE SubSeq(seq, Len(seq) - n + 1, Len(seq))

\* the initialState the popup sends with startTaskPolling once the task is created
PopupInitialState(taskId, now) ==
  [taskId |-> taskId, status |-> "executing", progress |-> 30,
   currentStep |-> "Task Started", message |-> "Executing task...",
   thoughtProcess |-> <<"received", "parsing", "plan created", "task id", "executing">>,
   lastUpdated |-> now]

\* const updatedState = {...} of a poll tick
UpdatedState(taskId, data, cur, now) ==
  [taskId         |-> taskId,
   status         |-> data.status,
   progress       |-> OrNum(data.progress_percent, cur.progress),
   currentStep    |-> OrStr(data.current_step, cur.currentStep),
   message        |-> OrStr(data.message, cur.message),
   thoughtProcess |-> IF data.current_step # Undefined
                      THEN Append(LastN(cur.thoughtProcess, ThoughtKeep), "step s1")
                      ELSE cur.thoughtProcess,
   lastUpdated    |-> now]

IsCompleted(data) == data.status = "completed" \/ data.status = "success"

IsFailed(data) == data.status = "failed" \/ data.status = "error"

\* the terminal / waiting adjustments a tick makes to updatedState
Finalize(u, data) ==
  IF IsCompleted(data)
  THEN [u EXCEPT !.status = "complete",
                 !.message = OrStr(data.message, "Task completed successfully!"),
                 !.progress = 100,
                 !.thoughtProcess = Append(LastN(u.thoughtProcess, ThoughtKeep), "task completed")]
  ELSE IF IsFailed(data)
  THEN [u EXCEPT !.status = "error",
                 !.message = OrStr(data.error_message, "Task failed"),
                 !.thoughtProcess = Append(LastN(u.thoughtProcess, ThoughtKeep), "task failed")]
  ELSE IF data.status = "waiting_intervention"
  THEN [u EXCEPT !.status = "waiting", !.message = "Waiting for your input..."]
  ELSE u

\* stopPollingTask(taskId): the timers and activePolling it leaves
StoppedTimers(taskId) ==
  IF mPolling[taskId] # 0 THEN {tm \in mTimers : tm.id # mPolling[taskId]} ELSE mTimers

StoppedPolling(taskId) == [mPolling EXCEPT ![taskId] = 0]

\* "Update badge" at the end of a tick
BadgeOf(u) ==
  IF u.status = "complete" THEN [text |-> "check", pct |-> 0]
  ELSE IF u.status = "error" THEN [text |-> "!", pct |-> 0]
  ELSE [text |-> "%", pct |-> u.progress]

IsTerminal(task) == task.status = "complete" \/ task.status = "error"

\* Date.now() - task.lastUpdated > 60 * 60 * 1000
IsStaleOrExactlyAnHour(now, task) == now - task.lastUpdated >= StaleMs

IsStale(now, task) == now - task.lastUpdated > StaleMs

\* onMessage 'startTaskPolling': startPollingTask runs up to its first await,
\* having issued the write of the initial state
StartTaskPolling ==
  /\ mBudget.events > 0
  /\ mBudget' = [mBudget EXCEPT !.events = @ - 1]
  /\ \E t \in mTasks :
       LET init == PopupInitialState(t, mNow)
       IN  /\ mStore' = init
           /\ mStarts' = Append(mStarts, [task |-> t, init |-> init])
  /\ UNCHANGED <<mTasks, mPolling, mTimers, mNextTimer, mTicks, mNextTick, mNotifs, mBadge,
                 mBackend, mNow, mBoot>>
  /\ UNCHANGED <<graphVars, execVars, pageVars, popVars, repVars, tabVars, sockVars>>

\* startPollingTask after `await chrome.storage.local.set`: replace the task's
\* timer by a new setInterval
StartContinueKeepsTimer ==
  /\ mStarts # <<>>
  /\ LET st == Head(mStarts)
         tm == [id |-> mNextTimer, task |-> st.task, init |-> st.init]
     IN  /\ mTimers' = mTimers \cup {tm}
         /\ mPolling' = [mPolling EXCEPT ![st.task] = mNextTimer]
  /\ mNextTimer' = mNextTimer + 1
  /\ mStarts' = Tail(mStarts)
  /\ UNCHANGED <<mTasks, mStore, mTicks, mNextTick, mNotifs, mBadge, mBackend, mNow, mBoot, mBudget>>
  /\ UNCHANGED <<graphVars, execVars, pageVars, popVars, repVars, tabVars, sockVars>>

StartContinue ==
  /\ mStarts # <<>>
  /\ LET st == Head(mStarts)
         tm == [id |-> mNextTimer, task |-> st.task, init |-> st.init]
     IN  /\ mTimers' = StoppedTimers(st.task) \cup {tm}
         /\ mPolling' = [mPolling EXCEPT ![st.task] = mNextTimer]
  /\ mNextTimer' = mNextTimer + 1
  /\ mStarts' = Tail(mStarts)
  /\ UNCHANGED <<mTasks, mStore, mTicks, mNextTick, mNotifs, mBadge, mBackend, mNow, mBoot, mBudget>>
  /\ UNCHANGED <<graphVars, execVars, pageVars, popVars, repVars, tabVars, sockVars>>

\* onMessage 'stopTaskPolling'
StopTaskPolling ==
  /\ mBudget.events > 0
  /\ mBudget' = [mBudget EXCEPT !.events = @ - 1]
  /\ \E t \in mTasks :
       /\ mTimers' = StoppedTimers(t)
       /\ mPolling' = StoppedPolling(t)
  /\ UNCHANGED <<mTasks, mStore, mNextTimer, mStarts, mTicks, mNextTick, mNotifs, mBadge, mBackend,
                 mNow, mBoot>>
  /\ UNCHANGED <<graphVars, execVars, pageVars, popVars, repVars, tabVars, sockVars>>

\* onMessage 'clearTaskState'
ClearTaskState ==
  /\ mBudget.events > 0
  /\ mBudget' = [mBudget EXCEPT !.events = @ - 1]
  /\ mStore' = NoTask
  /\ UNCHANGED <<mTasks, mPolling, mTimers, mNextTimer, mStarts, mTicks, mNextTick, mNotifs, mBadge,
                 mBackend, mNow, mBoot>>
  /\ UNCHANGED <<graphVars, execVars, pageVars, popVars, repVars, tabVars, sockVars>>

\* a live interval timer fires: the async callback starts its fetch
TimerFire ==
  /\ mBudget.events > 0
  /\ mBudget.ticks > 0
  /\ Cardinality(mTicks) < mBudget.flight
  /\ mBudget' = [mBudget EXCEPT !.events = @ - 1, !.ticks = @ - 1]
  /\ \E tm \in mTimers :
       mTicks' = mTicks \cup {[id |-> mNextTick, timer |-> tm.id, task |-> tm.task,
                               init |-> tm.init, pc |-> "fetch", data |-> NoData,
                               cur |-> NoTask]}
  /\ mNextTick' = mNextTick + 1
  /\ UNCHANGED <<mTasks, mStore, mPolling, mTimers, mNextTimer, mStarts, mNotifs, mBadge, mBackend,
                 mNow, mBoot>>
  /\ UNCHANGED <<graphVars, execVars, pageVars, popVars, repVars, tabVars, sockVars>>

\* the status request fails (response not ok, or fetch / json throws): the tick ends
TickResponseFailStops ==
  /\ \E k \in mTicks :
       /\ k.pc = "fetch"
       /\ mTicks' = mTicks \ {k}
       /\ mTimers' = StoppedTimers(k.task)
       /\ mPolling' = StoppedPolling(k.task)
  /\ UNCHANGED <<mTasks, mStore, mNextTimer, mStarts, mNextTick, mNotifs, mBadge,
                 mBackend, mNow, mBoot, mBudget>>
  /\ UNCHANGED <<graphVars, execVars, pageVars, popVars, repVars, tabVars, sockVars>>

TickResponseFail ==
  /\ \E k \in mTicks :
       /\ k.pc = "fetch"
       /\ mTicks' = mTicks \ {k}
  /\ UNCHANGED <<mTasks, mStore, mPolling, mTimers, mNextTimer, mStarts, mNextTick, mNotifs, mBadge,
                 mBackend, mNow, mBoot, mBudget>>
  /\ UNCHANGED <<graphVars, execVars, pageVars, popVars, repVars, tabVars, sockVars>>

\* the status request succeeds: `data` holds what the backend reported
TickResponseOk ==
  /\ \E k \in mTicks : \E shape \in ResponseShapes :
       /\ k.pc = "fetch"
       /\ mTicks' = (mTicks \ {k}) \cup
                      {[k EXCEPT !.pc = "got", !.data = Response(mBackend[k.task], shape)]}
  /\ UNCHANGED <<mTasks, mStore, mPolling, mTimers, mNextTimer, mStarts, mNextTick, mNotifs, mBadge,
                 mBackend, mNow, mBoot, mBudget>>
  /\ UNCHANGED <<graphVars, execVars, pageVars, popVars, repVars, tabVars, sockVars>>

\* the tick's storage read is served: currentState = result.activeTask || initialState
TickRead ==
  /\ \E k \in mTicks :
       /\ k.pc = "got"
       /\ mTicks' = (mTicks \ {k}) \cup
                      {[k EXCEPT !.pc = "read",
                                 !.cur = IF mStore # NoTask THEN mStore ELSE k.init]}
  /\ UNCHANGED <<mTasks, mStore, mPolling, mTimers, mNextTimer, mStarts, mNextTick, mNotifs, mBadge,
                 mBackend, mNow, mBoot, mBudget>>
  /\ UNCHANGED <<graphVars, execVars, pageVars, popVars, repVars, tabVars, sockVars>>

\* the tick merges the response into the state it read, stops polling and
\* notifies on completion, stops polling on failure, and stores the result
TickUpdate ==
  /\ \E k \in mTicks :
       /\ k.pc = "read"
       /\ LET u == Finalize(UpdatedState(k.task, k.data, k.cur, mNow), k.data)
          IN  /\ mStore' = u
              /\ IF IsCompleted(k.data) \/ IsFailed(k.data)
                 THEN /\ mTimers' = StoppedTimers(k.task)
                      /\ mPolling' = StoppedPolling(k.task)
                 ELSE UNCHANGED <<mTimers, mPolling>>
              /\ IF IsCompleted(k.data)
                 THEN mNotifs' = Append(mNotifs, [task |-> k.task, timer |-> k.timer,
                                                  message |-> u.message])
                 ELSE UNCHANGED mNotifs
              /\ mBadge' = BadgeOf(u)
       /\ mTicks' = mTicks \ {k}
  /\ UNCHANGED <<mTasks, mNextTimer, mStarts, mNextTick, mBackend, mNow, mBoot, mBudget>>
  /\ UNCHANGED <<graphVars, execVars, pageVars, popVars, repVars, tabVars, sockVars>>

\* the backend moves a task that is not final to another status
BackendAdvance ==
  /\ mBudget.events > 0
  /\ mBudget' = [mBudget EXCEPT !.events = @ - 1]
  /\ \E t \in mTasks : \E st \in BackendStatuses :
       /\ mBackend[t] \notin BackendFinal
       /\ st # mBackend[t]
       /\ mBackend' = [mBackend EXCEPT ![t] = st]
  /\ UNCHANGED <<mTasks, mStore, mPolling, mTimers, mNextTimer, mStarts, mTicks, mNextTick,
                 mNotifs, mBadge, mNow, mBoot>>
  /\ UNCHANGED <<graphVars, execVars, pageVars, popVars, repVars, tabVars, sockVars>>

\* time passes (the startup storage read does not stay pending for long)
ClockAdvance ==
  /\ mBoot.pc = "done"
  /\ mBudget.events > 0
  /\ mBudget' = [mBudget EXCEPT !.events = @ - 1]
  /\ \E d \in ClockSteps : mNow' = mNow + d
  /\ UNCHANGED <<mTasks, mStore, mPolling, mTimers, mNextTimer, mStarts, mTicks, mNextTick,
                 mNotifs, mBadge, mBackend, mBoot>>
  /\ UNCHANGED <<graphVars, execVars, pageVars, popVars, repVars, tabVars, sockVars>>

\* the browser stops the service worker and starts it again: timers, pending
\* callbacks and activePolling are gone, storage and shown notifications stay
Restart ==
  /\ mBudget.events > 0
  /\ mBudget' = [mBudget EXCEPT !.events = @ - 1]
  /\ mPolling' = [t \in mTasks |-> 0]
  /\ mTimers' = {}
  /\ mStarts' = <<>>
  /\ mTicks' = {}
  /\ mBoot' = [pc |-> "issued", task |-> NoTask]
  /\ UNCHANGED <<mTasks, mStore, mNextTimer, mNextTick, mNotifs, mBadge, mBackend, mNow>>
  /\ UNCHANGED <<graphVars, execVars, pageVars, popVars, repVars, tabVars, sockVars>>

\* the startup chrome.storage.local.get(['activeTask']) is served
StartupRead ==
  /\ mBoot.pc = "issued"
  /\ mBoot' = [pc |-> "read", task |-> mStore]
  /\ UNCHANGED <<mTasks, mStore, mPolling, mTimers, mNextTimer, mStarts, mTicks, mNextTick,
                 mNotifs, mBadge, mBackend, mNow, mBudget>>
  /\ UNCHANGED <<graphVars, execVars, pageVars, popVars, repVars, tabVars, sockVars>>

\* "Clean up old tasks on startup": the callback of the startup storage read
Startup ==
  /\ mBoot.pc = "read"
  /\ mBoot' = [pc |-> "done", task |-> NoTask]
  /\ LET task == mBoot.task
     IN  IF task = NoTask
         THEN UNCHANGED <<mStore, mStarts>>
         ELSE IF IsStale(mNow, task)
              THEN /\ mStore' = IF ~IsTerminal(task)
                                THEN [task EXCEPT !.status = "error",
                                                  !.message = "Task timed out"]
                                ELSE mStore
                   /\ UNCHANGED mStarts
              ELSE IF ~IsTerminal(task)
                   THEN \* startPollingTask(task.taskId, task), up to its first await
                        /\ mStore' = task
                        /\ mStarts' = Append(mStarts, [task |-> task.taskId, init |-> task])
                   ELSE UNCHANGED <<mStore, mStarts>>
  /\ UNCHANGED <<mTasks, mPolling, mTimers, mNextTimer, mTicks, mNextTick, mNotifs, mBadge, mBackend,
                 mNow, mBudget>>
  /\ UNCHANGED <<graphVars, execVars, pageVars, popVars, repVars, tabVars, sockVars>>

\* a freshly installed extension: the worker has just started, nothing is stored
MonInit ==
  /\ GraphIdle
  /\ ExecIdle
  /\ PageIdle
  /\ PopIdle
  /\ RepIdle
  /\ TabIdle
  /\ SockIdle
  /\ mTasks = {"t1"}
  /\ mStore = NoTask
  /\ mPolling = [t \in mTasks |-> 0]
  /\ mTimers = {}
  /\ mNextTimer = 1
  /\ mStarts = <<>>
  /\ mTicks = {}
  /\ mNextTick = 1
  /\ mNotifs = <<>>
  /\ mBadge = [text |-> "", pct |-> 0]
  /\ mBackend = [t \in mTasks |-> "running"]
  /\ mNow = 0
  /\ mBoot = [pc |-> "issued", task |-> NoTask]
  /\ mBudget = [events |-> MaxEvents, ticks |-> MaxTicks, flight |-> MaxTicks]

MonNext ==
  \/ StartTaskPolling \/ StartContinue \/ StopTaskPolling \/ ClearTaskState
  \/ TimerFire \/ TickResponseFail \/ TickResponseOk \/ TickRead \/ TickUpdate
  \/ BackendAdvance \/ ClockAdvance \/ Restart \/ StartupRead \/ Startup

SpecMonitor == MonInit /\ [][MonNext]_vars

(***************************************************************************)
(* Popup: restoring the task state from the service worker                 *)
(***************************************************************************)
MaxQueries == 2

\* the 60 attempts of the poll ceiling
MaxAttempts == 60

\* setTaskState({...}) of restoreTaskState
ViewOf(task) ==
  [status |-> task.status,
   message |-> OrStr(task.message, ""),
   taskId |-> task.taskId,
   progress |-> task.progress,
   currentStep |-> OrStr(task.currentStep, ""),
   thoughtProcess |-> task.thoughtProcess]

\* the popup is opened: the component mounts and calls restoreTaskState()
PopupOpen ==
  /\ ~uOpen
  /\ uQueries < MaxQueries
  /\ uOpen' = TRUE
  /\ uView' = IdleView
  /\ uPending' = uPending + 1
  /\ uQueries' = uQueries + 1
  /\ uOutbox' = uOutbox
  /\ UNCHANGED <<graphVars, execVars, pageVars, monVars, repVars, tabVars, sockVars>>

\* setInterval(restoreTaskState, 2000) fires while the popup is open
PopupPoll ==
  /\ uOpen
  /\ uQueries < MaxQueries
  /\ uPending' = uPending + 1
  /\ uQueries' = uQueries + 1
  /\ UNCHANGED <<uOpen, uView, uOutbox>>
  /\ UNCHANGED <<graphVars, execVars, pageVars, monVars, repVars, tabVars, sockVars>>

\* the popup is closed: the component unmounts, its state is gone
PopupClose ==
  /\ uOpen
  /\ uOpen' = FALSE
  /\ uView' = IdleView
  /\ UNCHANGED <<uPending, uQueries, uOutbox>>
  /\ UNCHANGED <<graphVars, execVars, pageVars, monVars, repVars, tabVars, sockVars>>

\* onMessage 'getTaskState': the worker reads storage and answers with the task;
\* a popup that is still open shows it
GetTaskStateRestartsPolling ==
  /\ uPending > 0
  /\ uPending' = uPending - 1
  /\ uView' = IF uOpen /\ mStore # NoTask THEN ViewOf(mStore) ELSE uView
  /\ mStarts' = IF mStore # NoTask
                THEN Append(mStarts, [task |-> mStore.taskId, init |-> mStore])
                ELSE mStarts
  /\ UNCHANGED <<uOpen, uQueries, uOutbox>>
  /\ UNCHANGED <<mTasks, mStore, mPolling, mTimers, mNextTimer, mTicks, mNextTick, mNotifs,
                 mBadge, mBackend, mNow, mBoot, mBudget>>
  /\ UNCHANGED <<graphVars, execVars, pageVars, repVars, tabVars, sockVars>>

GetTaskState ==
  /\ uPending > 0
  /\ uPending' = uPending - 1
  /\ uView' = IF uOpen /\ mStore # NoTask THEN ViewOf(mStore) ELSE uView
  /\ UNCHANGED <<uOpen, uQueries, uOutbox>>
  /\ UNCHANGED <<graphVars, execVars, pageVars, monVars, repVars, tabVars, sockVars>>

\* the worker is polling task t1, started by a popup that has since been closed
PollingInit ==
  /\ GraphIdle
  /\ ExecIdle
  /\ PageIdle
  /\ PopIdle
  /\ RepIdle
  /\ TabIdle
  /\ SockIdle
  /\ mTasks = {"t1"}
  /\ mStore = PopupInitialState("t1", 0)
  /\ mPolling = [t \in mTasks |-> 1]
  /\ mTimers = {[id |-> 1, task |-> "t1", init |-> PopupInitialState("t1", 0)]}
  /\ mNextTimer = 2
  /\ mStarts = <<>>
  /\ mTicks = {}
  /\ mNextTick = 1
  /\ mNotifs = <<>>
  /\ mBadge = [text |-> "", pct |-> 0]
  /\ mBackend = [t \in mTasks |-> "running"]
  /\ mNow = 0
  /\ mBoot = [pc |-> "done", task |-> NoTask]

ObserveInit ==
  /\ PollingInit
  /\ mBudget = [events |-> MaxTicks, ticks |-> MaxTicks, flight |-> MaxTicks]

ObserveNext ==
  \/ TimerFire \/ TickResponseFail \/ TickResponseOk \/ TickRead \/ TickUpdate
  \/ PopupOpen \/ PopupPoll \/ PopupClose \/ GetTaskState

SpecObserve == ObserveInit /\ [][ObserveNext]_vars

\* a task whose backend status stays non-terminal, polled one tick at a time
PollInit ==
  /\ PollingInit
  /\ mBudget = [events |-> MaxAttempts + 1, ticks |-> MaxAttempts + 1, flight |-> 1]

PollNext == TimerFire \/ TickResponseFail \/ TickResponseOk \/ TickRead \/ TickUpdate

SpecPoll == PollInit /\ [][PollNext]_vars

\* ---- resetState: the popup stops and clears the task ----

\* resetState(): stopTaskPolling is sent when the popup holds a task id, then
\* clearTaskState, and the popup goes back to its idle state
ResetState ==
  /\ uOpen
  /\ uView # IdleView
  /\ uOutbox' = uOutbox \o
       (IF uView.taskId # "null"
        THEN <<[action |-> "stopTaskPolling", taskId |-> uView.taskId]>> ELSE <<>>) \o
       <<[action |-> "clearTaskState", taskId |-> "null"]>>
  /\ uView' = IdleView
  /\ UNCHANGED <<uOpen, uPending, uQueries>>
  /\ UNCHANGED <<graphVars, execVars, pageVars, monVars, repVars, tabVars, sockVars>>

\* onMessage 'stopTaskPolling' for the message resetState sent
ResetStop ==
  /\ uOutbox # <<>>
  /\ Head(uOutbox).action = "stopTaskPolling"
  /\ uOutbox' = Tail(uOutbox)
  /\ mTimers' = StoppedTimers(Head(uOutbox).taskId)
  /\ mPolling' = StoppedPolling(Head(uOutbox).taskId)
  /\ UNCHANGED <<mTasks, mStore, mNextTimer, mStarts, mTicks, mNextTick, mNotifs, mBadge, mBackend,
                 mNow, mBoot, mBudget>>
  /\ UNCHANGED <<uOpen, uView, uPending, uQueries>>
  /\ UNCHANGED <<graphVars, execVars, pageVars, repVars, tabVars, sockVars>>

\* onMessage 'clearTaskState' for the message resetState sent
ResetClear ==
  /\ uOutbox # <<>>
  /\ Head(uOutbox).action = "clearTaskState"
  /\ uOutbox' = Tail(uOutbox)
  /\ mStore' = NoTask
  /\ UNCHANGED <<mTasks, mPolling, mTimers, mNextTimer, mStarts, mTicks, mNextTick, mNotifs, mBadge,
                 mBackend, mNow, mBoot, mBudget>>
  /\ UNCHANGED <<uOpen, uView, uPending, uQueries>>
  /\ UNCHANGED <<graphVars, execVars, pageVars, repVars, tabVars, sockVars>>

\* the popup shows task t1, which it has just handed to the worker: the
\* worker's startPollingTask call still awaits its storage write, or has
\* already set up the timer
ResetInit ==
  /\ GraphIdle
  /\ ExecIdle
  /\ PageIdle
  /\ RepIdle
  /\ TabIdle
  /\ SockIdle
  /\ mTasks = {"t1"}
  /\ mStore = PopupInitialState("t1", 0)
  /\ \/ /\ mStarts = <<[task |-> "t1", init |-> PopupInitialState("t1", 0)]>>
        /\ mTimers = {}
        /\ mPolling = [t \in mTasks |-> 0]
        /\ mNextTimer = 1
     \/ /\ mStarts = <<>>
        /\ mTimers = {[id |-> 1, task |-> "t1", init |-> PopupInitialState("t1", 0)]}
        /\ mPolling = [t \in mTasks |-> 1]
        /\ mNextTimer = 2
  /\ mTicks = {}
  /\ mNextTick = 1
  /\ mNotifs = <<>>
  /\ mBadge = [text |-> "", pct |-> 0]
  /\ mBackend = [t \in mTasks |-> "running"]
  /\ mNow = 0
  /\ mBoot = [pc |-> "done", task |-> NoTask]
  /\ mBudget = [events |-> MaxTicks, ticks |-> MaxTicks, flight |-> MaxTicks]
  /\ uOpen = TRUE
  /\ uView = ViewOf(PopupInitialState("t1", 0))
  /\ uPending = 0
  /\ uQueries = 0
  /\ uOutbox = <<>>

\* no further startTaskPolling is sent
ResetNext ==
  \/ StartContinue
  \/ TimerFire \/ TickResponseFail \/ TickResponseOk \/ TickRead \/ TickUpdate
  \/ ResetState \/ ResetStop \/ ResetClear
  \/ PopupPoll \/ GetTaskState

SpecReset == ResetInit /\ [][ResetNext]_vars

\* the popup has reset the task and the worker has handled both messages
ResetHandled == uView = IdleView /\ uOutbox = <<>>

\* C24: after an explicit reset (stopTaskPolling followed by clearTaskState)
\* has been handled, the task's persisted state is gone, so that getTaskState
\* answers null, whatever was in flight when the reset was handled.
C24_ResetDestroysState == ResetHandled => mStore = NoTask

\* C28: once the stopTaskPolling of a reset has been handled, no poll tick of
\* the task starts (no startTaskPolling is received afterwards), also when the
\* stop arrived while a startPollingTask call awaited its storage write.
C28_NoTickAfterStop ==
  [][ (ResetHandled /\ ResetHandled') => mNextTick' = mNextTick ]_vars

\* C11: handling a getTaskState query leaves the persisted state and the
\* pollers unchanged, opening or closing the popup changes nothing in the
\* worker, and a popup that restores the task shows exactly the persisted
\* progress entries.
C11_ObserverIndependent ==
  [][/\ (uPending' < uPending) =>
          /\ mStore' = mStore /\ mPolling' = mPolling /\ mTimers' = mTimers
          /\ mStarts' = mStarts /\ mTicks' = mTicks /\ mNotifs' = mNotifs
          /\ (uOpen /\ mStore # NoTask) =>
               /\ uView'.thoughtProcess = mStore.thoughtProcess
               /\ uView'.progress = mStore.progress
               /\ uView'.currentStep = mStore.currentStep
     /\ (uOpen' # uOpen \/ uPending' > uPending) => UNCHANGED monVars]_vars

\* the open popup shows, on its second query, the entries two ticks have left
\* in storage since the task was started
C11_Witness ==
  /\ uOpen
  /\ uQueries = 2
  /\ uPending = 0
  /\ mNextTick = 3
  /\ mTicks = {}
  /\ mStore.thoughtProcess = <<"parsing", "plan created", "task id", "executing", "step s1", "step s1">>
  /\ uView.thoughtProcess = mStore.thoughtProcess
  /\ mTimers # {}

\* C12: a task whose backend status never becomes terminal is forced to the
\* error state after at most 60 poll attempts: there is no 61st attempt, and
\* once the 60th has ended the task is in error and its poller is gone.
C12_PollCeiling ==
  /\ mNextTick - 1 <= MaxAttempts
  /\ (mNextTick - 1 = MaxAttempts /\ mTicks = {}) =>
       /\ mStore.status = "error"
       /\ mTimers = {}

\* C8: when the backend reports completed or success, exactly one completion
\* notification is created for the polling session of that task, also when a
\* second tick is already in flight when the first one stops the poller.
C8_OneCompletionNotification ==
  \A i, j \in DOMAIN mNotifs : mNotifs[i].timer = mNotifs[j].timer => i = j

\* the stored task is in a terminal state
StoredTerminal(store) == store # NoTask /\ store.status \in {"complete", "error"}

\* C9: every step by which the monitored task reaches a terminal state (a tick
\* reporting failed/error, a completed tick, stale-task recovery at startup)
\* creates exactly one user-visible notification.
C9_TerminalNotifiesOnce ==
  [][(~StoredTerminal(mStore) /\ StoredTerminal(mStore'))
       => Len(mNotifs') = Len(mNotifs) + 1]_vars

\* the step in which the startup callback handles the persisted task it read
StartupStep == mBoot.pc = "read" /\ mBoot'.pc = "done"

\* C10: on startup with a persisted task: non-terminal and last updated more
\* than one hour ago, it becomes error with the timeout message and no poller
\* is started; non-terminal and younger, polling is resumed for it from its
\* persisted state; already complete or error, the state is left unchanged and
\* no poller is started.
C10_StartupRecovery ==
  [][(StartupStep /\ mBoot.task # NoTask) =>
       /\ mTimers' = mTimers /\ mPolling' = mPolling
       /\ IF StoredTerminal(mBoot.task)
          THEN mStore' = mStore /\ mStarts' = mStarts
          ELSE IF mNow - mBoot.task.lastUpdated > 60 * 60 * 1000
          THEN /\ mStore' = [mBoot.task EXCEPT !.status = "error",
                                               !.message = "Task timed out"]
               /\ mStarts' = mStarts
          ELSE /\ mStore' = mBoot.task
               /\ mStarts' = Append(mStarts, [task |-> mBoot.task.taskId,
                                              init |-> mBoot.task])]_vars

C10_Witness ==
  /\ mBoot.pc = "done"
  /\ mStore # NoTask
  /\ mStore.status = "error"
  /\ mStore.message = "Task timed out"
  /\ mNow - mStore.lastUpdated > 60 * 60 * 1000
  /\ mTimers = {}
  /\ mStarts = <<>>

\* ---- stepResult: the worker forwards a step report to the backend ----

\* `result.activeTask || {}`: the fields of an empty object read as undefined
EmptyState ==
  [taskId |-> Undefined, status |-> Undefined, progress |-> 0, currentStep |-> Undefined,
   message |-> Undefined, thoughtProcess |-> <<>>, lastUpdated |-> 0]

\* JSON bodies of POST /tasks/{id}/report: an error body without the fields,
\* or the task's status and progress
ReportJsons ==
  {[status |-> Undefined, progress |-> 0], [status |-> "running", progress |-> 60],
   [status |-> "completed", progress |-> 100]}

NoJson == [status |-> Undefined, progress |-> 0]

\* `${stepName} - ${success ? 'ok' : 'fail'}`
ReportEntry(success) == IF success THEN "step - ok" ELSE "step - fail"

\* the state the stepResult handler stores once the backend has answered
ReportedState(state, json, stepName, success, now) ==
  [state EXCEPT !.status = OrStr(json.status, @),
                !.progress = OrNum(json.progress, @),
                !.currentStep = IF stepName # "" THEN stepName ELSE @,
                !.lastUpdated = now,
                !.thoughtProcess = Append(LastN(@, ThoughtKeep), ReportEntry(success))]

\* the extension is reloaded or removed while the content script still runs:
\* chrome.runtime.sendMessage throws from then on
ContextInvalidated ==
  /\ rContext
  /\ rContext' = FALSE
  /\ UNCHANGED <<rListening, rChannel, rForwards, rLog>>
  /\ UNCHANGED <<graphVars, execVars, pageVars, monVars, popVars, tabVars, sockVars>>

\* onMessage, action 'stepResult': fetch(.../report) is issued, sendResponse
StepResultReceive ==
  /\ rChannel # <<>>
  /\ rForwards' = rForwards \cup
       {[id |-> Head(rChannel).result.attempt, msg |-> Head(rChannel), pc |-> "fetch",
         json |-> NoJson, state |-> EmptyState]}
  /\ rChannel' = Tail(rChannel)
  /\ UNCHANGED <<rContext, rListening, rLog>>
  /\ UNCHANGED <<graphVars, execVars, pageVars, monVars, popVars, tabVars, sockVars>>

\* the fetch rejects (network error) or r.json() rejects: .catch logs the error
\* and nothing is stored
ForwardRejectStores(f) ==
  /\ f.pc = "fetch"
  /\ rForwards' = rForwards \ {f}
  /\ rLog' = [rLog EXCEPT !.forward = @ + 1]
  /\ mStore' = ReportedState(IF mStore = NoTask THEN EmptyState ELSE mStore, NoJson,
                             f.msg.stepName, f.msg.result.success, mNow)
  /\ UNCHANGED <<rContext, rListening, rChannel>>
  /\ UNCHANGED <<mTasks, mPolling, mTimers, mNextTimer, mStarts, mTicks, mNextTick,
                 mNotifs, mBadge, mBackend, mNow, mBoot, mBudget>>
  /\ UNCHANGED <<graphVars, execVars, pageVars, popVars, tabVars, sockVars>>

ForwardReject(f) ==
  /\ f.pc = "fetch"
  /\ rForwards' = rForwards \ {f}
  /\ rLog' = [rLog EXCEPT !.forward = @ + 1]
  /\ UNCHANGED <<rContext, rListening, rChannel>>
  /\ UNCHANGED <<graphVars, execVars, pageVars, monVars, popVars, tabVars, sockVars>>

\* .then((r) => r.json()).then((json) => chrome.storage.local.get(...)): the
\* body is parsed whatever the HTTP status, and the stored state is requested
ForwardJson(f, json) ==
  /\ f.pc = "fetch"
  /\ rForwards' = (rForwards \ {f}) \cup {[f EXCEPT !.pc = "get", !.json = json]}
  /\ UNCHANGED <<rContext, rListening, rChannel, rLog>>
  /\ UNCHANGED <<graphVars, execVars, pageVars, monVars, popVars, tabVars, sockVars>>

\* storage.get calls back with a copy: const state = result.activeTask || {}
ForwardRead(f) ==
  /\ f.pc = "get"
  /\ rForwards' = (rForwards \ {f}) \cup
       {[f EXCEPT !.pc = "read", !.state = IF mStore = NoTask THEN EmptyState ELSE mStore]}
  /\ UNCHANGED <<rContext, rListening, rChannel, rLog>>
  /\ UNCHANGED <<graphVars, execVars, pageVars, monVars, popVars, tabVars, sockVars>>

\* the callback updates the copy and chrome.storage.local.set({activeTask: state})
ForwardStore(f) ==
  /\ f.pc = "read"
  /\ mStore' = ReportedState(f.state, f.json, f.msg.stepName, f.msg.result.success, mNow)
  /\ rForwards' = rForwards \ {f}
  /\ UNCHANGED <<rContext, rListening, rChannel, rLog>>
  /\ UNCHANGED <<mTasks, mPolling, mTimers, mNextTimer, mStarts, mTicks, mNextTick,
                 mNotifs, mBadge, mBackend, mNow, mBoot, mBudget>>
  /\ UNCHANGED <<graphVars, execVars, pageVars, popVars, tabVars, sockVars>>

\* a single step of a plan (payload.retries missing or 2)
ReportSteps ==
  {<<[id |-> "A", deps |-> {}, retries |-> r, action |-> "click", fields |-> {"selector"}]>> :
     r \in PlanRetryValues}

\* an in-tab task: the content script runs one step while the worker listens;
\* the popup may or may not have stored the task's state
ReportInit ==
  /\ GraphIdle
  /\ PageIdle
  /\ PopIdle
  /\ xSteps \in ReportSteps
  /\ xIdx = 1
  /\ xPc = "for"
  /\ xAttempt = 0
  /\ xErrs = <<>>
  /\ xReports = <<>>
  /\ xWaits = <<>>
  /\ xRet = NoRet
  /\ xResult = [i \in 1..Len(xSteps) |-> "none"]
  /\ xStarted = <<>>
  /\ xResponded = FALSE
  /\ mTasks = {"t1"}
  /\ mStore \in {NoTask, PopupInitialState("t1", 0)}
  /\ mPolling = <<>>
  /\ mTimers = {}
  /\ mNextTimer = 1
  /\ mStarts = <<>>
  /\ mTicks = {}
  /\ mNextTick = 1
  /\ mNotifs = <<>>
  /\ mBadge = [text |-> "", pct |-> 0]
  /\ mBackend = [t \in {"t1"} |-> "running"]
  /\ mNow = 1
  /\ mBoot = [pc |-> "done", task |-> NoTask]
  /\ mBudget = [events |-> 0, ticks |-> 0, flight |-> 0]
  /\ rContext = TRUE
  /\ rListening = TRUE
  /\ rChannel = <<>>
  /\ rForwards = {}
  /\ rLog = [send |-> 0, forward |-> 0]
  /\ TabIdle
  /\ SockIdle

ReportNext ==
  \/ ExecNext
  \/ ContextInvalidated
  \/ StepResultReceive
  \/ \E f \in rForwards : ForwardReject(f)
  \/ \E f \in rForwards : \E json \in ReportJsons : ForwardJson(f, json)
  \/ \E f \in rForwards : ForwardRead(f)
  \/ \E f \in rForwards : ForwardStore(f)

SpecReport == ReportInit /\ [][ReportNext]_vars

\* what executeStep has returned is what attemptAction produced: the data of
\* the successful attempt, or an error attemptAction threw
ReturnFromAttempts ==
  /\ xRet.kind = "success" =>
       /\ xReports # <<>>
       /\ xReports[Len(xReports)].success
       /\ xRet.data = xReports[Len(xReports)].payload
       /\ xRet.data \in AttemptReturns(xSteps[1])
  /\ xRet.kind = "failure" =>
       xRet.error \in AttemptThrows(xSteps[1]) \cup {"Unknown failure"}
  /\ \A i \in 1..Len(xErrs) : xErrs[i] \in AttemptThrows(xSteps[1])

\* C14: reporting is decoupled from execution. Whether sendMessage delivers
\* the stepResult or throws, executeStep returns what attemptAction produced,
\* never an error of the send; and the step in which a forward to the backend
\* fails (the request or the parsing of its answer rejects) changes neither
\* the step's outcome nor the persisted state.
C14_ReportingDecoupled ==
  [][ /\ ReturnFromAttempts'
      /\ rLog'.send > rLog.send => Len(xReports') = Len(xReports) + 1
      /\ rLog'.forward > rLog.forward =>
           /\ mStore' = mStore
           /\ xRet' = xRet
           /\ xResult' = xResult ]_vars

\* C14 witness: the step has returned success although a send threw and a
\* forward failed, and the stored state is still the one the popup wrote
C14_Witness ==
  /\ rLog.send >= 1
  /\ rLog.forward >= 1
  /\ xRet.kind = "success"
  /\ mStore = PopupInitialState("t1", 0)
  /\ rChannel = <<>>
  /\ rForwards = {}

\* the step in which tick k, having read the stored state, stores its update
TickUpdateStep(k) ==
  k \in mTicks /\ k.pc = "read" /\ mTicks' = mTicks \ {k} /\ mBudget' = mBudget

\* the step in which the status request of tick k fails
TickFailStep(k) ==
  k \in mTicks /\ k.pc = "fetch" /\ mTicks' = mTicks \ {k} /\ mBudget' = mBudget

\* ---- in-tab tasks: startInTabTask (worker) and executeSteps (content script) ----

\* startInTabTask messages the popup sends in one run
MaxInTabStarts == 2

\* what the backend answers to POST /tasks/{id}/claim when the request gets through
ClaimAnswers == {"accepted", "http-error"}

\* onMessage 'startInTabTask': the claim request is issued, sendResponse
StartInTabTask ==
  /\ Len(cClaims) < MaxInTabStarts
  /\ cClaims' = Append(cClaims, [task |-> "t1", pc |-> "claim", answer |-> "pending"])
  /\ UNCHANGED <<bInbox, bBatches>>
  /\ UNCHANGED <<graphVars, execVars, pageVars, monVars, popVars, repVars, sockVars>>

\* the claim fetch rejects (network error): .catch logs 'Claim task error'
ClaimRejects(i) ==
  /\ cClaims[i].pc = "claim"
  /\ cClaims' = [cClaims EXCEPT ![i].pc = "failed", ![i].answer = "network-error"]
  /\ UNCHANGED <<bInbox, bBatches>>
  /\ UNCHANGED <<graphVars, execVars, pageVars, monVars, popVars, repVars, sockVars>>

\* the claim fetch resolves, whatever the HTTP status of the answer:
\* .then(() => chrome.tabs.query(...)) runs
ClaimAnswered(i, answer) ==
  /\ cClaims[i].pc = "claim"
  /\ cClaims' = [cClaims EXCEPT ![i].pc = "query", ![i].answer = answer]
  /\ UNCHANGED <<bInbox, bBatches>>
  /\ UNCHANGED <<graphVars, execVars, pageVars, monVars, popVars, repVars, sockVars>>

\* the tabs.query callback: without an active tab it logs and returns, else
\* chrome.tabs.sendMessage(tab.id, {action: 'executeSteps', taskId, steps})
TabsQueried(i, hasTab) ==
  /\ cClaims[i].pc = "query"
  /\ IF hasTab
     THEN /\ cClaims' = [cClaims EXCEPT ![i].pc = "sent"]
          /\ bInbox' = Append(bInbox, [task |-> cClaims[i].task])
     ELSE /\ cClaims' = [cClaims EXCEPT ![i].pc = "no-tab"]
          /\ bInbox' = bInbox
  /\ UNCHANGED bBatches
  /\ UNCHANGED <<graphVars, execVars, pageVars, monVars, popVars, repVars, sockVars>>

\* content script, case 'executeSteps': the async handler starts its for-of loop
ExecuteStepsReceived ==
  /\ bInbox # <<>>
  /\ bBatches' = Append(bBatches, [task |-> Head(bInbox).task, idx |-> 1, pc |-> "for"])
  /\ bInbox' = Tail(bInbox)
  /\ UNCHANGED cClaims
  /\ UNCHANGED <<graphVars, execVars, pageVars, monVars, popVars, repVars, sockVars>>

\* `await executeStep(taskId, step)` is called on the handler's next step; the
\* call stays in progress over the waits of attemptAction and of the backoff
BatchCallStep(b) ==
  /\ bBatches[b].pc = "for"
  /\ bBatches[b].idx <= MaxExecSteps
  /\ bBatches' = [bBatches EXCEPT ![b].pc = "step"]
  /\ UNCHANGED <<cClaims, bInbox>>
  /\ UNCHANGED <<graphVars, execVars, pageVars, monVars, popVars, repVars, sockVars>>

\* the executeStep call returns: on failure the loop breaks, else the pacing
\* delay is awaited
BatchStepReturns(b, success) ==
  /\ bBatches[b].pc = "step"
  /\ bBatches' = [bBatches EXCEPT ![b].pc = IF success THEN "pacing" ELSE "done"]
  /\ UNCHANGED <<cClaims, bInbox>>
  /\ UNCHANGED <<graphVars, execVars, pageVars, monVars, popVars, repVars, sockVars>>

\* the pacing delay is over: the loop goes to the next step
BatchPacing(b) ==
  /\ bBatches[b].pc = "pacing"
  /\ bBatches' = [bBatches EXCEPT ![b].pc = "for", ![b].idx = @ + 1]
  /\ UNCHANGED <<cClaims, bInbox>>
  /\ UNCHANGED <<graphVars, execVars, pageVars, monVars, popVars, repVars, sockVars>>

\* the list is exhausted: sendResponse
BatchEnd(b) ==
  /\ bBatches[b].pc = "for"
  /\ bBatches[b].idx > MaxExecSteps
  /\ bBatches' = [bBatches EXCEPT ![b].pc = "done"]
  /\ UNCHANGED <<cClaims, bInbox>>
  /\ UNCHANGED <<graphVars, execVars, pageVars, monVars, popVars, repVars, sockVars>>

InTabInit ==
  /\ GraphIdle
  /\ ExecIdle
  /\ PageIdle
  /\ MonIdle
  /\ PopIdle
  /\ RepIdle
  /\ SockIdle
  /\ cClaims = <<>>
  /\ bInbox = <<>>
  /\ bBatches = <<>>

InTabNext ==
  \/ StartInTabTask
  \/ \E i \in 1..Len(cClaims) : ClaimRejects(i)
  \/ \E i \in 1..Len(cClaims) : \E answer \in ClaimAnswers : ClaimAnswered(i, answer)
  \/ \E i \in 1..Len(cClaims) : \E hasTab \in BOOLEAN : TabsQueried(i, hasTab)
  \/ ExecuteStepsReceived
  \/ \E b \in 1..Len(bBatches) : BatchCallStep(b)
  \/ \E b \in 1..Len(bBatches) : \E success \in BOOLEAN : BatchStepReturns(b, success)
  \/ \E b \in 1..Len(bBatches) : BatchPacing(b)
  \/ \E b \in 1..Len(bBatches) : BatchEnd(b)

SpecInTab == InTabInit /\ [][InTabNext]_vars

\* C23: the page is accessed exclusively per task: at most one executeStep
\* invocation of a task is in progress in the content script at any time,
\* also when a second executeSteps message for the task arrives while the
\* first batch is still running.
C23_OneStepPerTask ==
  \A b, c \in 1..Len(bBatches) :
    (bBatches[b].task = bBatches[c].task /\ bBatches[b].pc = "step" /\ bBatches[c].pc = "step")
      => b = c

\* C30: the plan steps are sent to the active tab only after the backend
\* accepted the claim: a claim request that failed or was answered with an
\* HTTP error status dispatches no executeSteps message.
C30_DispatchAfterClaim ==
  \A i \in 1..Len(cClaims) : cClaims[i].pc = "sent" => cClaims[i].answer = "accepted"

\* ---- frontend: WebSocketService / TaskWebSocket ----

\* WebSocket objects created in one run
MaxSockets == 7

\* maxReconnectAttempts
MaxReconnectAttempts == 5

\* this.ws?.readyState === WebSocket.OPEN
RefIsOpen == \E s \in wSockets : s.id = wRef /\ s.state = "open"

\* ws.onopen: the counter of consecutive reconnect attempts is reset
SockOpened(s) ==
  /\ s.state = "connecting"
  /\ wSockets' = (wSockets \ {s}) \cup {[s EXCEPT !.state = "open"]}
  /\ wAttempts' = 0
  /\ UNCHANGED <<wKind, wMounted, wRef, wTimers, wNextSock>>
  /\ UNCHANGED <<graphVars, execVars, pageVars, monVars, popVars, repVars, tabVars>>

\* ws.onclose, whatever closed the socket (a failed connect, the server, the
\* network, or close() called by disconnect): a reconnect is scheduled unless
\* the attempt counter has reached its maximum
SockClosed(s) ==
  /\ wSockets' = wSockets \ {s}
  /\ IF wAttempts < MaxReconnectAttempts
     THEN /\ wAttempts' = wAttempts + 1
          /\ wTimers' = wTimers + 1
     ELSE UNCHANGED <<wAttempts, wTimers>>
  /\ UNCHANGED <<wKind, wMounted, wRef, wNextSock>>
  /\ UNCHANGED <<graphVars, execVars, pageVars, monVars, popVars, repVars, tabVars>>

\* the reconnect timer fires: this.connect(). WebSocketService returns when its
\* socket is open; otherwise a new WebSocket is created and becomes this.ws
ReconnectTimer ==
  /\ wTimers > 0
  /\ wTimers' = wTimers - 1
  /\ IF wKind = "service" /\ RefIsOpen
     THEN UNCHANGED <<wSockets, wRef, wNextSock>>
     ELSE /\ wNextSock <= MaxSockets
          /\ wSockets' = wSockets \cup {[id |-> wNextSock, state |-> "connecting"]}
          /\ wRef' = wNextSock
          /\ wNextSock' = wNextSock + 1
  /\ UNCHANGED <<wKind, wMounted, wAttempts>>
  /\ UNCHANGED <<graphVars, execVars, pageVars, monVars, popVars, repVars, tabVars>>

\* disconnect(): this.ws.close() and this.ws = null; the socket's handlers
\* stay attached and pending reconnect timers are not cleared
Disconnect ==
  /\ wMounted
  /\ wMounted' = FALSE
  /\ wSockets' = {IF s.id = wRef THEN [s EXCEPT !.state = "closing"] ELSE s : s \in wSockets}
  /\ wRef' = 0
  /\ UNCHANGED <<wKind, wAttempts, wTimers, wNextSock>>
  /\ UNCHANGED <<graphVars, execVars, pageVars, monVars, popVars, repVars, tabVars>>

\* a client whose owner has called connect()
SockInit ==
  /\ GraphIdle
  /\ ExecIdle
  /\ PageIdle
  /\ MonIdle
  /\ PopIdle
  /\ RepIdle
  /\ TabIdle
  /\ wKind \in {"service", "task"}
  /\ wMounted = TRUE
  /\ wSockets = {[id |-> 1, state |-> "connecting"]}
  /\ wRef = 1
  /\ wAttempts = 0
  /\ wTimers = 0
  /\ wNextSock = 2

SockNext ==
  \/ \E s \in wSockets : SockOpened(s)
  \/ \E s \in wSockets : SockClosed(s)
  \/ ReconnectTimer
  \/ Disconnect

SpecSocket == SockInit /\ [][SockNext]_vars

\* C29: after disconnect() no reconnect is attempted (no new WebSocket is
\* created), the consecutive reconnect attempts never exceed 5, and a
\* successful open resets the counter to 0.
C29_NoReconnectAfterDisconnect ==
  [][ /\ ~wMounted => wNextSock' = wNextSock
      /\ wAttempts' <= MaxReconnectAttempts
      /\ (\E s \in wSockets : s.state = "connecting" /\ s \notin wSockets'
                               /\ [s EXCEPT !.state = "open"] \in wSockets')
           => wAttempts' = 0 ]_vars

\* two tasks handed to the monitor by the popup, one after the other
TwoTasksInit ==
  /\ GraphIdle
  /\ ExecIdle
  /\ PageIdle
  /\ PopIdle
  /\ RepIdle
  /\ TabIdle
  /\ SockIdle
  /\ mTasks = {"t1", "t2"}
  /\ mStore = NoTask
  /\ mPolling = [t \in mTasks |-> 0]
  /\ mTimers = {}
  /\ mNextTimer = 1
  /\ mStarts = <<>>
  /\ mTicks = {}
  /\ mNextTick = 1
  /\ mNotifs = <<>>
  /\ mBadge = [text |-> "", pct |-> 0]
  /\ mBackend = [t \in mTasks |-> "running"]
  /\ mNow = 0
  /\ mBoot = [pc |-> "done", task |-> NoTask]
  /\ mBudget = [events |-> MaxTicks + 1, ticks |-> MaxTicks, flight |-> MaxTicks]

TwoTasksNext ==
  \/ StartTaskPolling \/ StartContinue \/ StopTaskPolling
  \/ TimerFire \/ TickResponseFail \/ TickResponseOk \/ TickRead \/ TickUpdate

SpecTwoTasks == TwoTasksInit /\ [][TwoTasksNext]_vars

\* C21: the monitor's state is keyed by taskId: while two tasks are monitored,
\* the step in which a poll tick of one task stores its update leaves the
\* persisted state of the other task as it is.
C21_TasksIsolated ==
  [][ \A k \in mTicks :
        (TickUpdateStep(k) /\ mStore # NoTask /\ mStore.taskId # k.task) =>
          mStore' = mStore ]_vars

\* C26: a terminal persisted status is absorbing: once the stored status is
\* complete or error, a step changes it to a non-terminal status only if it
\* handles a new startTaskPolling (a startPollingTask call begins) or removes
\* the state (clearTaskState); no poll tick does.
C26_TerminalAbsorbing ==
  [][ (mStore # NoTask /\ IsTerminal(mStore)) =>
        \/ mStore' = NoTask
        \/ IsTerminal(mStore')
        \/ Len(mStarts') > Len(mStarts) ]_vars

\* C22: at most one poll timer is active per taskId, and it is the one
\* activePolling holds for the task, after any interleaving of
\* startTaskPolling, stopTaskPolling, poll ticks and startup recovery, also
\* when two startPollingTask calls for the task overlap at their storage write.
C22_OnePollerPerTask ==
  /\ \A tm \in mTimers : mPolling[tm.task] = tm.id
  /\ \A t \in mTasks : Cardinality({tm \in mTimers : tm.task = t}) <= 1

\* C22 witness: two startTaskPolling messages for t1 were received and nothing
\* else happened; both calls have passed their storage write and the second
\* timer has replaced the first
C22_Witness ==
  /\ mBudget.events = MaxEvents - 2
  /\ mStarts = <<>>
  /\ mNextTimer = 3
  /\ mTicks = {}
  /\ mNextTick = 1
  /\ mTimers = {[id |-> 2, task |-> "t1", init |-> PopupInitialState("t1", 0)]}

\* the five states of a task
TaskStatuses == {"planning", "executing", "waiting", "complete", "error"}

\* C17: the persisted status is always one of planning, executing, waiting,
\* complete, error; no raw backend status string is ever stored.
C17_StatusNormalised ==
  mStore # NoTask => mStore.status \in TaskStatuses

\* C18: a poll tick whose status request fails leaves the persisted state
\* unchanged, creates no notification, and leaves the poller active.
C18_FailedPollIsTransient ==
  [][\A k \in mTicks : TickFailStep(k) =>
        /\ mStore' = mStore
        /\ mNotifs' = mNotifs
        /\ mBadge' = mBadge
        /\ mTimers' = mTimers
        /\ mPolling' = mPolling]_vars

\* a first tick has ended, the stored state is still the initial one and the
\* poller of the task is live
C18_Witness ==
  /\ mNextTick = 2
  /\ mTicks = {}
  /\ mStarts = <<>>
  /\ mStore = PopupInitialState("t1", 0)
  /\ mPolling["t1"] # 0
  /\ \E tm \in mTimers : tm.id = mPolling["t1"]
  /\ mNotifs = <<>>

\* C19: when a poll response lacks status, progress_percent, current_step or
\* message, the persisted status, progress, currentStep or message keeps the
\* value the tick read from storage.
C19_MissingFieldsKeepPrevious ==
  [][\A k \in mTicks : TickUpdateStep(k) =>
        /\ k.data.status = Undefined => mStore'.status = k.cur.status
        /\ k.data.progress_percent = 0 => mStore'.progress = k.cur.progress
        /\ k.data.current_step = Undefined => mStore'.currentStep = k.cur.currentStep
        /\ k.data.message = Undefined => mStore'.message = k.cur.message]_vars

\* C20: thoughtProcess of the persisted state holds at most 5 entries.
C20_ThoughtProcessBounded ==
  mStore # NoTask => Len(mStore.thoughtProcess) <= 5

====
